---------------------------- MODULE Spec2Model ----------------------------
(***************************************************************************)
(* A model of JPyang (pyang/plugins/jpyang.py): the pyang output plug-in   *)
(* that compiles a YANG statement tree into Java class files and an XML    *)
(* schema file.                                                            *)
(*                                                                         *)
(* A string is modelled as a sequence of symbols (a letter, a blank, or a  *)
(* whole word that the code never takes apart, such as a type name), so    *)
(* that split, capitalize and concatenation are computed, not assumed.     *)
(* Generated Java text is modelled by its structure: a class is the        *)
(* sequence of its members in the order the code concatenates them, a      *)
(* member is its generator, its method name and its parameter list.        *)
(***************************************************************************)
EXTENDS Integers, Sequences, FiniteSets, TLC

VARIABLES
    tree,       \* the statement tree: a sequence of statements, each with
                \* its keyword, its arg and the index of its parent
    modules,    \* emit's "modules" argument: indices of top-level statements
    opts,       \* ctx.opts: the option flags
    today,      \* what datetime.date.today() returns during the pass
    pc,         \* where emit is
    mi,         \* index into modules of the statement the loop is at
    todo,       \* what the call of generate_classes in progress does: its
                \* effects in order, and whether it raises
    ev,         \* number of effects of generate_classes already performed
    files,      \* the artifacts written so far, in the order of writing
    stderr,     \* the diagnostics printed to sys.stderr, in order
    index,      \* package-info.java: whether it is written, and the class
                \* hierarchy in it
    javadoc,    \* the runs of the javadoc tool, each with its exit status
    exit_code,  \* the exit code of sys.exit or of an error.EmitError raised,
                \* -1 for none
    fs,         \* what the file system has at the path of the output
                \* directory when emit is entered
    cwd         \* the working directory of the process

vars == <<tree, modules, opts, today, pc, mi, todo, ev, files, stderr, index,
          javadoc, exit_code, fs, cwd>>

---------------------------------------------------------------------------
(* Bounds of the input space.                                              *)

\* most leaf / leaf-list children of the class under test
MaxLeaves == 2
\* most identifiers in a key argument
MaxKeys == 2
\* most leaf / leaf-list children of a nested class or of the module
MaxInner == 1

---------------------------------------------------------------------------
(* Strings.                                                                *)

SP == " "

\* str.upper / str.lower on one symbol
Upper(c) ==
    CASE c = "a" -> "A" [] c = "b" -> "B" [] c = "c" -> "C" [] c = "d" -> "D"
      [] c = "g" -> "G" [] c = "k" -> "K" [] c = "m" -> "M" [] c = "n" -> "N"
      [] c = "p" -> "P" [] c = "q" -> "Q" [] c = "s" -> "S" [] c = "x" -> "X"
      [] c = "y" -> "Y" [] c = "z" -> "Z" [] OTHER -> c

Lower(c) ==
    CASE c = "A" -> "a" [] c = "B" -> "b" [] c = "C" -> "c" [] c = "D" -> "d"
      [] c = "G" -> "g" [] c = "K" -> "k" [] c = "M" -> "m" [] c = "N" -> "n"
      [] c = "P" -> "p" [] c = "Q" -> "q" [] c = "S" -> "s" [] c = "X" -> "x"
      [] c = "Y" -> "y" [] c = "Z" -> "z" [] OTHER -> c

\* str.capitalize(): first character upper-cased, the rest lower-cased
capitalize(s) ==
    [i \in DOMAIN s |-> IF i = 1 THEN Upper(s[i]) ELSE Lower(s[i])]

\* index of the first blank of s, 0 when there is none
FirstBlank(s) ==
    IF \E i \in DOMAIN s : s[i] = SP
    THEN CHOOSE i \in DOMAIN s : s[i] = SP /\ \A j \in 1..(i - 1) : s[j] # SP
    ELSE 0

\* str.split(' '): the pieces between single blanks, empty pieces kept
RECURSIVE split(_)
split(s) ==
    LET i == FirstBlank(s) IN
    IF i = 0 THEN <<s>>
    ELSE <<SubSeq(s, 1, i - 1)>> \o split(SubSeq(s, i + 1, Len(s)))

\* ' '.join(tokens)
RECURSIVE Join(_)
Join(tokens) ==
    IF tokens = <<>> THEN <<>>
    ELSE IF Len(tokens) = 1 THEN tokens[1]
    ELSE tokens[1] \o <<SP>> \o Join(Tail(tokens))

---------------------------------------------------------------------------
(* The statement tree (pyang.statements.Statement), as the parser hands it *)
(* over: keyword, arg, substmts in parse order, parent.                    *)

Stmt(kw, arg, subs) == [keyword |-> kw, arg |-> arg, substmts |-> subs]

RECURSIVE Flatten(_, _, _)
RECURSIVE FlattenAll(_, _, _)
\* the statements of a nested tree, numbered in parse order
Flatten(n, p, arena) ==
    FlattenAll(n.substmts, Len(arena) + 1,
        Append(arena, [keyword |-> n.keyword, arg |-> n.arg, parent |-> p]))
FlattenAll(ns, p, arena) ==
    IF ns = <<>> THEN arena
    ELSE FlattenAll(Tail(ns), p, Flatten(Head(ns), p, arena))

\* stmt.substmts: the sub-statements of stmt, in parse order
substmts(stmt) ==
    SelectSeq([j \in 1..Len(tree) |-> j], LAMBDA j : tree[j].parent = stmt)

\* stmt.search(keyword)
search(stmt, kw) ==
    SelectSeq(substmts(stmt), LAMBDA j : tree[j].keyword = kw)

\* stmt.search_one(keyword): the first such sub-statement, 0 for None
search_one(stmt, kw) ==
    LET found == search(stmt, kw) IN
    IF found = <<>> THEN 0 ELSE found[1]

\* stmt.search_one(keyword, arg)
search_one_arg(stmt, kw, arg) ==
    LET found == SelectSeq(substmts(stmt),
                     LAMBDA j : tree[j].keyword = kw /\ tree[j].arg = arg) IN
    IF found = <<>> THEN 0 ELSE found[1]

---------------------------------------------------------------------------
(* Statement predicates.                                                   *)

is_module(stmt) ==
    tree[stmt].keyword = "module" \/ tree[stmt].keyword = "submodule"

is_container(stmt, strict) ==
    \/ tree[stmt].keyword = "container"
    \/ (~strict /\ tree[stmt].keyword = "list")

in_schema_with_leaf_list(stmt) ==
    \/ is_container(stmt, FALSE)
    \/ tree[stmt].keyword = "module"
    \/ tree[stmt].keyword = "leaf"
    \/ tree[stmt].keyword = "leaf-list"

in_schema(stmt) ==
    \/ is_container(stmt, FALSE)
    \/ tree[stmt].keyword = "module"
    \/ tree[stmt].keyword = "leaf"

\* extract_names(arg): (capitalized + '.java', capitalized)
extract_names(arg) ==
    <<capitalize(arg) \o <<".java">>, capitalize(arg)>>

---------------------------------------------------------------------------
(* Schema Emitter.                                                         *)

\* the max_occurs rule of schema_node without its parent clause
schema_max_noParentRule(isUnique, childOfContainerOrList, selfContainer) ==
    isUnique \/ selfContainer

\* line 349: the condition that sets max_occurs to '1'
schema_max_is_one(isUnique, childOfContainerOrList, selfContainer) ==
    isUnique \/ childOfContainerOrList \/ selfContainer

\* lines 347-348 with the mandatory statement ignored
min_occurs_unchanged(isMandatory, min_occurs) == min_occurs

\* lines 347-348: if isMandatory: min_occurs = '1'
min_occurs_if_mandatory(isMandatory, min_occurs) ==
    IF isMandatory THEN "1" ELSE min_occurs

\* line 340: isKey = key is not None and key.arg == stmt.arg
schema_isKey(stmt, key) ==
    key # 0 /\ tree[key].arg = tree[stmt].arg

RECURSIVE children_joined(_)
\* lines 354-356: children += ch.arg + ' ' for every sub-statement
children_joined(subs) ==
    IF subs = <<>> THEN <<>>
    ELSE tree[Head(subs)].arg \o <<SP>> \o children_joined(Tail(subs))

\* line 357: children[:-1]
children_text(subs) ==
    SubSeq(children_joined(subs), 1, Len(children_joined(subs)) - 1)

\* schema_node(stmt, tagpath, ns, ctx): the content of one "node" element
schema_node(stmt, tagpath, ns, ctx) ==
    LET mandatory == search_one(stmt, "mandatory")
        isMandatory == mandatory # 0 /\ tree[mandatory].arg = <<"true">>
        unique == search_one(stmt, "unique")
        isUnique == unique # 0 /\ tree[unique].arg = <<"true">>
        parent == tree[stmt].parent
        key == IF parent # 0 THEN search_one(parent, "key") ELSE 0
        isKey == schema_isKey(stmt, key)
        childOfContainerOrList == parent # 0 /\ is_container(parent, FALSE)
        first == \/ is_module(stmt)
                 \/ isKey
                 \/ (childOfContainerOrList /\ is_container(stmt, TRUE))
        min0 == IF first THEN "1" ELSE "0"
        max0 == IF first THEN "1" ELSE "-1"
        min_occurs == min_occurs_if_mandatory(isMandatory, min0)
        max_occurs ==
            IF schema_max_is_one(isUnique, childOfContainerOrList,
                                 is_container(stmt, TRUE))
            THEN "1" ELSE max0
    IN  [stmt       |-> stmt,
         tagpath    |-> tagpath,
         namespace  |-> ns,
         min_occurs |-> min_occurs,
         max_occurs |-> max_occurs,
         children   |-> children_text(substmts(stmt))]

RECURSIVE schema_nodes(_, _, _, _)
\* schema_nodes(stmts, tagpath, ns, ctx): the "node" elements of stmts and,
\* after each, those of its sub-statements
schema_nodes(stmts, tagpath, ns, ctx) ==
    IF stmts = <<>> THEN <<>>
    ELSE LET stmt == Head(stmts)
             here == Append(tagpath, tree[stmt].arg)
         IN  (IF in_schema(stmt)
              THEN <<schema_node(stmt, here, ns, ctx)>>
                     \o schema_nodes(substmts(stmt), here, ns, ctx)
              ELSE <<>>)
             \o schema_nodes(Tail(stmts), tagpath, ns, ctx)

---------------------------------------------------------------------------
(* Effects of the class generator: a warning printed to sys.stderr or a    *)
(* file written.  "stmt" and "by" record where the effect comes from.      *)

ConfmString == <<"com.tailf.confm.xs.String">>
ConfmUnsignedInt == <<"com.tailf.confm.xs.UnsignedInt">>
JavaString == <<"String">>
JavaLong == <<"long">>
\* a local variable that has not been assigned
Unbound == <<"<unbound>">>

NoClass == [stmt |-> 0, filename |-> <<>>, path |-> <<>>, ns |-> <<>>,
            body |-> <<>>]

\* print >> sys.stderr, 'WARNING! No support for type "..."'
Warning(stmt, typ, by) ==
    [kind |-> "warn", stmt |-> stmt, typ |-> typ, by |-> by,
     file |-> <<>>, content |-> NoClass, schema |-> <<>>]

\* with open(directory + '/' + filename, 'w + ') as f: f.write(java_class(..))
ClassFile(cls) ==
    [kind |-> "class", stmt |-> cls.stmt, typ |-> <<>>, by |-> "generate",
     file |-> cls.filename, content |-> cls, schema |-> <<>>]

\* one generated member: its generator, the statement it is generated for,
\* the Java name, the parameter list as (type, name) pairs, the type it
\* returns or wraps, the constructor mode, and generator flags
Member(op, stmt, name, params, typ, mode, flags) ==
    [op |-> op, stmt |-> stmt, name |-> name, params |-> params,
     typ |-> typ, mode |-> mode, flags |-> flags]

---------------------------------------------------------------------------
(* Key Extractor.                                                          *)

\* lines 240-251: the (confm type, primitive type) of a key of type t
key_types(t) ==
    IF t = <<"string">> THEN <<ConfmString, JavaString>>
    ELSE IF t = <<"uint32">> THEN <<ConfmUnsignedInt, JavaLong>>
    ELSE <<ConfmString, JavaString>>

\* the key identifiers collected back to front
key_args_reversed(arg) ==
    [i \in DOMAIN split(arg) |-> split(arg)[Len(split(arg)) + 1 - i]]

\* line 238: key.arg.split(' ')
key_args(arg) == split(arg)

\* line 252 with the flag taken from the last key alone
only_strings_last(only_strings, primitive) ==
    IF primitive = JavaString THEN 1 ELSE 0

\* line 252: only_strings *= primitive_keys[-1][0] == 'String'
only_strings_times(only_strings, primitive) ==
    only_strings * (IF primitive = JavaString THEN 1 ELSE 0)

\* line 239: search_one returns None for a key that names no leaf, or for
\* a leaf without type: AttributeError, 'NoneType' object has no attribute
\* 'search_one' (or 'arg'), which nothing catches
attribute_error_passed(acc) == acc

attribute_error(acc) == [acc EXCEPT !.raised = TRUE]

RECURSIVE extract_keys_loop(_, _, _, _)
\* lines 238-252: one iteration per identifier of the key argument
extract_keys_loop(stmt, args, ctx, acc) ==
    IF args = <<>> \/ acc.raised THEN acc
    ELSE LET arg == Head(args)
             leaf == search_one_arg(stmt, "leaf", arg)
             key_type == IF leaf = 0 THEN 0 ELSE search_one(leaf, "type")
         IN  IF key_type = 0
             THEN attribute_error(acc)
             ELSE LET t == tree[key_type].arg
                      ty == key_types(t)
                      unsupported == t # <<"string">> /\ t # <<"uint32">>
                  IN  extract_keys_loop(stmt, Tail(args), ctx,
                        [acc EXCEPT
                           !.confm_keys = Append(@, <<ty[1], arg>>),
                           !.primitive_keys = Append(@, <<ty[2], arg>>),
                           !.only_strings = only_strings_times(@, ty[2]),
                           !.warns =
                              IF unsupported /\ (ctx.debug \/ ctx.verbose)
                              THEN Append(@, Warning(leaf, t, "extract_keys"))
                              ELSE @])

\* extract_keys(stmt, ctx): key, only_strings, confm_keys, primitive_keys;
\* only_strings is True (1) to start with and an int once multiplied
extract_keys(stmt, ctx) ==
    LET key == search_one(stmt, "key")
        acc0 == [raised |-> FALSE, key |-> key, only_strings |-> 1,
                 confm_keys |-> <<>>, primitive_keys |-> <<>>,
                 warns |-> <<>>]
    IN  IF key = 0 THEN [acc0 EXCEPT !.raised = TRUE]
        ELSE extract_keys_loop(stmt, key_args(tree[key].arg), ctx, acc0)

---------------------------------------------------------------------------
(* Method Synthesizer: the generators of class members.                    *)

Value(arg) == arg \o <<"Value">>

\* the parameter list 'type name, ' of get_stmt, add_stmt and delete_stmt
Arguments(args, string) ==
    [i \in DOMAIN args |->
        <<IF string THEN JavaString ELSE args[i][1], args[i][2]>>]

access_methods_comment(keyword, arg, optional) ==
    Member("comment", 0, arg, <<>>, <<keyword>>, 0,
           IF optional THEN {"optional"} ELSE {})

child_field(stmt) ==
    Member("child_field", stmt, tree[stmt].arg, <<>>,
           capitalize(tree[stmt].arg), 0, {"field"})

get_stmt(stmt, keys, string) ==
    Member("get_stmt", stmt, <<"get">> \o capitalize(tree[stmt].arg),
           Arguments(keys, string), capitalize(tree[stmt].arg), 0,
           IF string THEN {"string"} ELSE {})

get_value(stmt, ret_type) ==
    Member("get_value", stmt,
           <<"get">> \o capitalize(tree[stmt].arg) \o <<"Value">>,
           <<>>, ret_type, 0, {})

\* set_value(stmt, prefix, arg_type, confm_type); '' is the empty sequence
set_value(stmt, prefix, arg_type, confm_type) ==
    Member("set_value", stmt,
           <<"set">> \o capitalize(tree[stmt].arg) \o <<"Value">>,
           <<<<arg_type, Value(tree[stmt].arg)>>>>, confm_type, 0,
           IF prefix # <<>>
           THEN (IF tree[stmt].keyword = "leaf-list"
                 THEN {"setLeafListValue"} ELSE {"setLeafValue"})
           ELSE {"new"})

unset_value(stmt) ==
    Member("unset_value", stmt,
           <<"unset">> \o capitalize(tree[stmt].arg) \o <<"Value">>,
           <<>>, <<>>, 0, {})

add_value(stmt, prefix) ==
    Member("add_value", stmt,
           <<"add">> \o (IF tree[stmt].keyword = "leaf-list"
                         THEN <<"Empty">> ELSE <<>>)
                     \o capitalize(tree[stmt].arg),
           <<>>, <<>>, 0,
           IF tree[stmt].keyword = "leaf-list"
           THEN {"setLeafListValue"} ELSE {"setLeafValue"})

mark(stmt, op, arg_type) ==
    Member("mark", stmt,
           <<"mark">> \o capitalize(tree[stmt].arg) \o capitalize(<<op>>),
           IF tree[stmt].keyword = "leaf-list"
           THEN <<<<arg_type, Value(tree[stmt].arg)>>>> ELSE <<>>,
           <<op>>, 0, {})

child_iterator(substmt) ==
    Member("child_iterator", substmt, tree[substmt].arg \o <<"Iterator">>,
           <<>>,
           IF tree[substmt].keyword = "leaf-list"
           THEN <<"ElementLeafListValueIterator">>
           ELSE <<"ElementChildrenIterator">>, 0, {})

\* add_stmt(stmt, args, field, string)
add_stmt(stmt, args, field, string) ==
    LET name == capitalize(tree[stmt].arg)
        asChild == Len(args) = 1 /\ args[1][1] = tree[stmt].arg
    IN  Member("add_stmt", stmt, <<"add">> \o name,
               IF asChild THEN <<<<name, tree[stmt].arg>>>>
               ELSE Arguments(args, string),
               name, 0,
               (IF asChild THEN {} ELSE {"new"})
                 \cup (IF field THEN {"field"} ELSE {})
                 \cup (IF string THEN {"string"} ELSE {}))

\* delete_stmt(stmt, args, string, keys)
delete_stmt(stmt, args, string, keys) ==
    Member("delete_stmt", stmt, <<"delete">> \o capitalize(tree[stmt].arg),
           Arguments(args, string), <<>>, 0,
           (IF args = <<>> THEN {"field"} ELSE {})
             \cup (IF string THEN {"string"} ELSE {})
             \cup (IF args # <<>> /\ keys THEN {"keys"} ELSE {}))

\* support_add(fields): the instanceof chain runs over fields backwards
support_add(fields) ==
    Member("support_add", 0, <<"addChild">>,
           [i \in DOMAIN fields |->
               <<capitalize(fields[Len(fields) + 1 - i]),
                 fields[Len(fields) + 1 - i]>>],
           <<>>, 0, {})

RECURSIVE all_key_names(_)
\* lines 801-803: every identifier of every key statement
all_key_names(keys) ==
    IF keys = <<>> THEN <<>>
    ELSE split(tree[Head(keys)].arg) \o all_key_names(Tail(keys))

\* key_names(stmt): the keyNames() method
key_names(stmt) ==
    LET keys == search(stmt, "key")
        all == all_key_names(keys)
    IN  Member("key_names", stmt, <<"keyNames">>,
               [i \in DOMAIN all |-> <<JavaString, all[i]>>], <<>>, 0,
               IF keys = <<>> THEN {"null"} ELSE {})

RECURSIVE escape(_, _)
\* the characters of a str as repr writes them between the quotes q
escape(s, q) ==
    IF s = <<>> THEN <<>>
    ELSE (IF Head(s) = q \/ Head(s) = "\\" THEN <<"\\", Head(s)>>
          ELSE <<Head(s)>>)
         \o escape(Tail(s), q)

\* repr(s) of a str: in single quotes, in double quotes when s holds a
\* single quote and no double quote
repr(s) ==
    IF (\E i \in DOMAIN s : s[i] = "'") /\ ~(\E i \in DOMAIN s : s[i] = "\"")
    THEN <<"\"">> \o escape(s, "\"") \o <<"\"">>
    ELSE <<"'">> \o escape(s, "'") \o <<"'">>

RECURSIVE repr_items(_)
\* line 828: repr(names)[1:-1], the items of the list with ', ' between
repr_items(names) ==
    IF names = <<>> THEN <<>>
    ELSE IF Len(names) = 1 THEN repr(names[1])
    ELSE repr(names[1]) \o <<",", SP>> \o repr_items(Tail(names))

RECURSIVE str_replace(_, _, _)
\* s.replace(old, new): every occurrence of old, from the left
str_replace(s, old, new) ==
    IF Len(s) < Len(old) THEN s
    ELSE IF SubSeq(s, 1, Len(old)) = old
    THEN new \o str_replace(SubSeq(s, Len(old) + 1, Len(s)), old, new)
    ELSE <<Head(s)>> \o str_replace(Tail(s), old, new)

\* lines 828-829: ',\n' + ' ' * 12
LineBreak == <<",", "\n">> \o [i \in 1..12 |-> SP]

\* lines 824-831: the text between the braces of the array initialiser
children_names_text(names) ==
    IF Len(names) > 0
    THEN str_replace(str_replace(repr_items(names), <<"'">>, <<"\"">>),
                     <<",", SP>>, LineBreak)
    ELSE <<>>

\* children_names(stmt): the childrenNames() method; typ is the text of
\* its array initialiser
children_names(stmt) ==
    LET children == SelectSeq(substmts(stmt),
                        LAMBDA x : tree[x].keyword # "key")
    IN  Member("children_names", stmt, <<"childrenNames">>, <<>>,
               children_names_text(
                   [i \in DOMAIN children |-> tree[children[i]].arg]),
               0, {})

\* clone(class_name, key_names, shallow)
clone(class_name, keyNames, shallow) ==
    Member("clone", 0,
           IF shallow THEN <<"cloneShallow">> ELSE <<"clone">>,
           [i \in DOMAIN keyNames |->
               <<<<"call">>, <<"get">> \o keyNames[i] \o <<"Value">>>>],
           class_name, 0,
           (IF shallow THEN {"shallow"} ELSE {})
             \cup (IF keyNames # <<>> THEN {"try"} ELSE {}))

\* lines 698-702: the warnings constructor() prints for its args
constructor_warnings(stmt, ctx, mode, args) ==
    IF args = <<>> \/ mode = 0 \/ mode = 1 THEN <<>>
    ELSE LET odd == SelectSeq(args,
                        LAMBDA a : a[1] # JavaString /\ a[1] # JavaLong)
         IN  IF ctx.debug \/ ctx.verbose
             THEN [i \in DOMAIN odd |->
                      Warning(stmt, odd[i][1], "constructor")]
             ELSE <<>>

\* constructor(stmt, ctx, root, set_prefix, mode, args)
constructor(stmt, ctx, root, set_prefix, mode, args) ==
    Member("constructor", stmt, capitalize(tree[stmt].arg),
           IF args = <<>> \/ mode = 0 THEN <<>>
           ELSE [i \in DOMAIN args |->
                    <<IF mode = 2 THEN JavaString ELSE args[i][1],
                      Value(args[i][2])>>],
           IF root = <<>> THEN capitalize(tree[stmt].arg) ELSE root,
           mode,
           (IF set_prefix THEN {"setPrefix"} ELSE {})
             \cup (IF args = <<>> \/ mode = 0
                   THEN {"empty"} ELSE {"initialized"}))

---------------------------------------------------------------------------
(* Class Model Builder.                                                    *)

\* lines 475-479 and 509-513: type_str after the branch for a type that is
\* neither uint32 nor string; the assignment is inside the "if"
unsupported_type_str(ctx, type_str) ==
    IF ctx.debug \/ ctx.verbose THEN ConfmString ELSE type_str

\* lines 461-479 and 495-513: type_str after the dispatch on the type
type_str_after(ctx, t, type_str) ==
    IF t = <<"uint32">> THEN ConfmUnsignedInt
    ELSE IF t = <<"string">> THEN ConfmString
    ELSE unsupported_type_str(ctx, type_str)

\* lines 461-482: the get/set methods of a leaf
leaf_value_methods(sub, t, type_str, prefix_name) ==
    IF t = <<"uint32">>
    THEN <<get_value(sub, type_str),
           set_value(sub, prefix_name, type_str, <<>>),
           set_value(sub, <<>>, JavaString, type_str),
           set_value(sub, <<>>, JavaLong, type_str)>>
    ELSE IF t = <<"string">>
    THEN <<get_value(sub, type_str),
           set_value(sub, prefix_name, type_str, <<>>),
           set_value(sub, <<>>, JavaString, type_str)>>
    ELSE <<get_value(sub, type_str),
           set_value(sub, prefix_name, type_str, <<>>),
           set_value(sub, <<>>, <<>>, <<>>)>>

\* lines 493-530: the methods of a leaf-list
leaf_list_methods(sub, t, type_str, prefix_name) ==
    <<access_methods_comment("leaf-list", tree[sub].arg, FALSE),
      child_iterator(sub)>>
    \o (IF t = <<"uint32">>
        THEN <<set_value(sub, prefix_name, type_str, <<>>),
               set_value(sub, <<>>, JavaString, type_str),
               set_value(sub, <<>>, JavaLong, type_str)>>
        ELSE <<set_value(sub, prefix_name, type_str, <<>>),
               set_value(sub, <<>>, JavaString, type_str)>>)
    \o <<delete_stmt(sub, <<<<type_str, Value(tree[sub].arg)>>>>, FALSE, FALSE),
         delete_stmt(sub, <<<<type_str, Value(tree[sub].arg)>>>>, TRUE, FALSE),
         add_value(sub, prefix_name),
         mark(sub, "replace", type_str), mark(sub, "replace", JavaString),
         mark(sub, "merge", type_str), mark(sub, "merge", JavaString),
         mark(sub, "create", type_str), mark(sub, "create", JavaString),
         mark(sub, "delete", type_str), mark(sub, "delete", JavaString)>>

\* the methods of a list child with the iterator behind the add methods
list_child_methods_iterator_late(sub, confm_keys) ==
    <<access_methods_comment("list", tree[sub].arg, FALSE),
      get_stmt(sub, confm_keys, FALSE),
      get_stmt(sub, confm_keys, TRUE),
      add_stmt(sub, <<<<tree[sub].arg, tree[sub].arg>>>>, FALSE, FALSE),
      add_stmt(sub, confm_keys, FALSE, FALSE),
      add_stmt(sub, confm_keys, FALSE, TRUE),
      add_stmt(sub, <<>>, FALSE, FALSE),
      child_iterator(sub),
      delete_stmt(sub, confm_keys, FALSE, TRUE),
      delete_stmt(sub, confm_keys, TRUE, TRUE)>>

\* lines 429-438: the methods a list child gives its parent class
list_child_methods(sub, confm_keys) ==
    <<access_methods_comment("list", tree[sub].arg, FALSE),
      get_stmt(sub, confm_keys, FALSE),
      get_stmt(sub, confm_keys, TRUE),
      child_iterator(sub),
      add_stmt(sub, <<<<tree[sub].arg, tree[sub].arg>>>>, FALSE, FALSE),
      add_stmt(sub, confm_keys, FALSE, FALSE),
      add_stmt(sub, confm_keys, FALSE, TRUE),
      add_stmt(sub, <<>>, FALSE, FALSE),
      delete_stmt(sub, confm_keys, FALSE, TRUE),
      delete_stmt(sub, confm_keys, TRUE, TRUE)>>

\* lines 443-447: the members a container child gives its parent class
container_child_methods(sub) ==
    <<access_methods_comment("container", tree[sub].arg, FALSE),
      child_field(sub),
      add_stmt(sub, <<<<tree[sub].arg, tree[sub].arg>>>>, TRUE, FALSE),
      add_stmt(sub, <<>>, TRUE, FALSE),
      delete_stmt(sub, <<>>, FALSE, TRUE)>>

\* lines 547-558 without the constructor that has no argument
list_constructors_keyed(stmt, ctx, root, top_level, ek) ==
    <<constructor(stmt, ctx, root, top_level, 1, ek.confm_keys),
      constructor(stmt, ctx, root, top_level, 2, ek.primitive_keys)>>
    \o (IF ek.only_strings = 0
        THEN <<constructor(stmt, ctx, root, top_level, 3, ek.primitive_keys)>>
        ELSE <<>>)

\* lines 547-558: the constructors of a list class
list_constructors(stmt, ctx, root, top_level, ek) ==
    <<constructor(stmt, ctx, root, top_level, 0, <<>>),
      constructor(stmt, ctx, root, top_level, 1, ek.confm_keys),
      constructor(stmt, ctx, root, top_level, 2, ek.primitive_keys)>>
    \o (IF ek.only_strings = 0
        THEN <<constructor(stmt, ctx, root, top_level, 3, ek.primitive_keys)>>
        ELSE <<>>)

\* the accumulator of the loop after an exception
Raised(acc, events) ==
    [acc EXCEPT !.events = @ \o events, !.raised = TRUE]

\* lines 425-438: a list sub-statement; r is what generate_class(sub)
\* did, ek what extract_keys(sub) returned
list_sub(acc, sub, r, ek) ==
    IF r.raised THEN Raised(acc, r.events)
    ELSE IF ek.raised THEN Raised(acc, r.events \o ek.warns)
    ELSE [acc EXCEPT
            !.events = @ \o r.events \o ek.warns,
            !.access_methods = @ \o list_child_methods(sub, ek.confm_keys)]

\* lines 439-447: a container sub-statement
container_sub_prepended(acc, sub, r) ==
    IF r.raised THEN Raised(acc, r.events)
    ELSE [acc EXCEPT
            !.events = @ \o r.events,
            !.fields = Append(@, tree[sub].arg),
            !.access_methods = container_child_methods(sub) \o @]

container_sub(acc, sub, r) ==
    IF r.raised THEN Raised(acc, r.events)
    ELSE [acc EXCEPT
            !.events = @ \o r.events,
            !.fields = Append(@, tree[sub].arg),
            !.access_methods = @ \o container_child_methods(sub)]

\* lines 449-450: is the leaf named by the key argument of stmt
is_key_leaf_whole(stmt, sub, key) ==
    key # 0 /\ tree[key].arg = tree[sub].arg

is_key_leaf(stmt, sub, key) ==
    key # 0 /\ \E i \in DOMAIN split(tree[key].arg) :
                    split(tree[key].arg)[i] = tree[sub].arg

\* lines 476-478 and 510-512: the warning for an unsupported type
type_warning(ctx, sub, t) ==
    IF t # <<"uint32">> /\ t # <<"string">> /\ (ctx.debug \/ ctx.verbose)
    THEN <<Warning(sub, t, "generate_class")>> ELSE <<>>

\* lines 448-490: a leaf sub-statement; isKey says whether it is a key of
\* stmt, type_stmt is sub.search_one('type'), type_str the local variable
\* after the dispatch on the type
leaf_sub(acc, sub, isKey, type_stmt, type_str, prefix_name, ctx) ==
    IF type_stmt = 0
    THEN \* AttributeError: type_stmt is None
         Raised(acc, <<>>)
    ELSE IF type_str = Unbound
    THEN \* UnboundLocalError: type_str referenced before assignment
         Raised(acc, type_warning(ctx, sub, tree[type_stmt].arg))
    ELSE [acc EXCEPT
            !.events = @ \o type_warning(ctx, sub, tree[type_stmt].arg),
            !.type_str = type_str,
            !.access_methods =
                @ \o <<IF isKey
                       THEN access_methods_comment("key", tree[sub].arg, FALSE)
                       ELSE access_methods_comment("leaf", tree[sub].arg, TRUE)>>
                  \o leaf_value_methods(sub, tree[type_stmt].arg, type_str,
                                        prefix_name)
                  \o (IF ~isKey THEN <<unset_value(sub)>> ELSE <<>>)
                  \o <<add_value(sub, prefix_name)>>
                  \o (IF ~isKey
                      THEN <<mark(sub, "replace", JavaString),
                             mark(sub, "merge", JavaString),
                             mark(sub, "create", JavaString),
                             mark(sub, "delete", JavaString)>>
                      ELSE <<>>)]

\* lines 491-530: a leaf-list sub-statement
leaf_list_sub(acc, sub, type_stmt, type_str, prefix_name, ctx) ==
    IF type_stmt = 0 THEN Raised(acc, <<>>)
    ELSE IF type_str = Unbound
    THEN Raised(acc, type_warning(ctx, sub, tree[type_stmt].arg))
    ELSE [acc EXCEPT
            !.events = @ \o type_warning(ctx, sub, tree[type_stmt].arg),
            !.type_str = type_str,
            !.access_methods =
                @ \o leaf_list_methods(sub, tree[type_stmt].arg, type_str,
                                       prefix_name)]

\* the arg of statement s, '' for None
ArgOf(s) == IF s = 0 THEN <<>> ELSE tree[s].arg

\* lines 541-561: the constructors and clone methods of the class of stmt
constructors_and_cloners(stmt, ctx, prefix_name, top_level, ek) ==
    IF tree[stmt].keyword = "container"
    THEN <<constructor(stmt, ctx, prefix_name, top_level, 0, <<>>),
           clone(capitalize(tree[stmt].arg), <<>>, FALSE),
           clone(capitalize(tree[stmt].arg), <<>>, TRUE)>>
    ELSE IF tree[stmt].keyword = "list"
    THEN list_constructors(stmt, ctx, prefix_name, top_level, ek)
         \o <<clone(capitalize(tree[stmt].arg),
                    [i \in DOMAIN split(tree[ek.key].arg) |->
                        capitalize(split(tree[ek.key].arg)[i])], FALSE),
              clone(capitalize(tree[stmt].arg),
                    [i \in DOMAIN split(tree[ek.key].arg) |->
                        capitalize(split(tree[ek.key].arg)[i])], TRUE)>>
    ELSE <<>>

\* lines 547-558: what the constructor() calls of a list print
list_constructor_warnings(stmt, ctx, ek) ==
    constructor_warnings(stmt, ctx, 2, ek.primitive_keys)
    \o (IF ek.only_strings = 0
        THEN constructor_warnings(stmt, ctx, 3, ek.primitive_keys)
        ELSE <<>>)

\* lines 569-570: the body handed to java_class: constructors + cloners +
\* key_names(stmt) + children_names(stmt) + access_methods +
\* support_methods
class_body_reordered(cc, keyNames, childrenNames, access_methods, support_methods) ==
    access_methods \o cc \o <<keyNames>> \o <<childrenNames>>
    \o support_methods

class_body(cc, keyNames, childrenNames, access_methods, support_methods) ==
    cc \o <<keyNames>> \o <<childrenNames>> \o access_methods
    \o support_methods

\* lines 537-574: after the loop; acc is what the loop left, ek what
\* extract_keys(stmt) returns for a list
generate_class_end(stmt, path, ns, prefix_name, ctx, top_level, acc, ek) ==
    IF acc.raised
    THEN [events |-> acc.events, raised |-> TRUE]
    ELSE IF tree[stmt].keyword = "list" /\ ek.raised
    THEN [events |-> acc.events \o ek.warns, raised |-> TRUE]
    ELSE [events |->
            acc.events
            \o (IF tree[stmt].keyword = "list"
                THEN ek.warns \o list_constructor_warnings(stmt, ctx, ek)
                ELSE <<>>)
            \o <<ClassFile(
                  [stmt     |-> stmt,
                   filename |-> extract_names(tree[stmt].arg)[1],
                   path     |-> Append(path, tree[stmt].arg),
                   ns       |-> ns,
                   body     |->
                      class_body(
                          constructors_and_cloners(stmt, ctx, prefix_name,
                                                   top_level, ek),
                          key_names(stmt),
                          children_names(stmt),
                          acc.access_methods,
                          IF \E i \in DOMAIN substmts(stmt) :
                                 is_container(substmts(stmt)[i], FALSE)
                          THEN <<support_add(acc.fields)>> ELSE <<>>)])>>,
          raised |-> FALSE]

\* what extract_keys gives when it is not called
NoKeys == [raised |-> FALSE, key |-> 0, only_strings |-> 1,
           confm_keys |-> <<>>, primitive_keys |-> <<>>, warns |-> <<>>]

\* lines 426 and 438: path + stmt.arg + '/', the path handed to the class of
\* a sub-statement
sub_path_unchanged(path, stmt) == path

sub_path(path, stmt) == Append(path, tree[stmt].arg)

RECURSIVE generate_class(_, _, _, _, _, _)
RECURSIVE generate_class_loop(_, _, _, _, _, _, _)

\* lines 425-536: one iteration of the loop over stmt.substmts.  acc holds
\* the locals access_methods, fields and type_str, the effects so far, and
\* whether an exception has been raised
generate_class_sub(stmt, sub, acc, path, ns, prefix_name, ctx) ==
    IF tree[sub].keyword = "list" THEN
        list_sub(acc, sub,
            generate_class(sub, sub_path(path, stmt), ns,
                           prefix_name, ctx, FALSE),
            extract_keys(sub, ctx))
    ELSE IF tree[sub].keyword = "container" THEN
        container_sub(acc, sub,
            generate_class(sub, sub_path(path, stmt), ns,
                           prefix_name, ctx, FALSE))
    ELSE IF tree[sub].keyword = "leaf" THEN
        leaf_sub(acc, sub,
            is_key_leaf(stmt, sub, search_one(stmt, "key")),
            search_one(sub, "type"),
            type_str_after(ctx, ArgOf(search_one(sub, "type")), acc.type_str),
            prefix_name, ctx)
    ELSE IF tree[sub].keyword = "leaf-list" THEN
        leaf_list_sub(acc, sub,
            search_one(sub, "type"),
            type_str_after(ctx, ArgOf(search_one(sub, "type")), acc.type_str),
            prefix_name, ctx)
    ELSE \* uses, grouping, anything else: a line on stdout, no member
        acc

\* lines 422-536: the loop over stmt.substmts, stopped by an exception
generate_class_loop(stmt, subs, acc, path, ns, prefix_name, ctx) ==
    IF subs = <<>> \/ acc.raised THEN acc
    ELSE generate_class_loop(stmt, Tail(subs),
             generate_class_sub(stmt, Head(subs), acc, path, ns,
                                prefix_name, ctx),
             path, ns, prefix_name, ctx)

\* generate_class(stmt, directory, package, src, path, ns, prefix_name,
\* ctx, top_level): the effects in order (warnings, class files of the
\* descendants, then the class file of stmt) and whether it raised
generate_class(stmt, path, ns, prefix_name, ctx, top_level) ==
    generate_class_end(stmt, path, ns, prefix_name, ctx, top_level,
        generate_class_loop(stmt, substmts(stmt),
            [access_methods |-> <<>>, fields |-> <<>>,
             type_str |-> Unbound, events |-> <<>>, raised |-> FALSE],
            path, ns, prefix_name, ctx),
        IF tree[stmt].keyword = "list" THEN extract_keys(stmt, ctx)
        ELSE NoKeys)

\* lines 391-400: the root class of the module
root_class(module, ns_arg, prefix) ==
    LET names == extract_names(tree[prefix].arg) IN
    [stmt     |-> module,
     filename |-> names[1],
     path     |-> <<>>,
     ns       |-> ns_arg,
     body     |-> <<Member("class_fields", module, tree[prefix].arg, <<>>,
                           ns_arg, 0, {}),
                    Member("enable", module, <<"enable">>, <<>>,
                           names[2], 0, {}),
                    Member("register_schema", module, <<"registerSchema">>,
                           <<>>, names[2], 0, {})>>]

\* lines 384-387: one top-level statement of the module
generate_classes_sub(stmt, acc, r) ==
    IF tree[stmt].keyword = "container" \/ tree[stmt].keyword = "list"
    THEN [events |-> acc.events \o r.events, raised |-> r.raised]
    ELSE acc

RECURSIVE generate_classes_loop(_, _, _, _, _)
\* lines 383-387: generate_class for every top-level container and list
generate_classes_loop(subs, ns_arg, name, ctx, acc) ==
    IF subs = <<>> \/ acc.raised THEN acc
    ELSE generate_classes_loop(Tail(subs), ns_arg, name, ctx,
             generate_classes_sub(Head(subs), acc,
                 generate_class(Head(subs), <<>>, ns_arg, name, ctx, TRUE)))

\* the root class file written ahead of the classes of the loop
generate_classes_end_root_first(module, ns_arg, prefix, acc) ==
    IF acc.raised THEN acc
    ELSE [events |-> <<ClassFile(root_class(module, ns_arg, prefix))>>
                        \o acc.events,
          raised |-> FALSE]

\* lines 388-400: after the loop, the root class file is written
generate_classes_end(module, ns_arg, prefix, acc) ==
    IF acc.raised THEN acc
    ELSE [events |-> Append(acc.events,
                        ClassFile(root_class(module, ns_arg, prefix))),
          raised |-> FALSE]

\* lines 375-382: the prefix statement of a module or submodule, 0 (None)
\* when the look-up fails
prefix_of(module) ==
    IF tree[module].keyword = "module" THEN search_one(module, "prefix")
    ELSE IF tree[module].keyword = "submodule"
            /\ search_one(module, "belongs-to") # 0
    THEN search_one(search_one(module, "belongs-to"), "prefix")
    ELSE 0

\* lines 376 and 381: ns_arg
ns_arg_of(module, prefix) ==
    IF tree[module].keyword = "module"
    THEN tree[search_one(module, "namespace")].arg
    ELSE <<"<unknown/prefix: ">> \o tree[prefix].arg \o <<">">>

\* generate_classes(module, directory, package, src, ctx): the effects in
\* order and whether it raised
generate_classes(module, ctx) ==
    IF \/ (tree[module].keyword = "module"
             /\ search_one(module, "namespace") = 0)
       \/ prefix_of(module) = 0
    THEN \* AttributeError on None, or prefix is unbound
         [events |-> <<>>, raised |-> TRUE]
    ELSE generate_classes_end(module,
             ns_arg_of(module, prefix_of(module)), prefix_of(module),
             generate_classes_loop(substmts(module),
                 ns_arg_of(module, prefix_of(module)),
                 extract_names(tree[prefix_of(module)].arg)[2], ctx,
                 [events |-> <<>>, raised |-> FALSE]))

---------------------------------------------------------------------------
(* JPyangPlugin.emit.                                                      *)

\* lines 158-167: the schema file of a module
SchemaFile(module, ctx) ==
    LET ns == tree[search_one(module, "namespace")].arg
        name == capitalize(tree[search_one(module, "prefix")].arg)
    IN  [kind |-> "schema", stmt |-> module, typ |-> <<>>, by |-> "emit",
         file |-> name \o <<".schema">>, content |-> NoClass,
         schema |-> <<schema_node(module, <<>>, ns, ctx)>>
                      \o schema_nodes(substmts(module), <<>>, ns, ctx)]

\* a line that emit itself prints to sys.stderr
Message(kind, stmt) ==
    [kind |-> kind, stmt |-> stmt, typ |-> <<>>, by |-> "emit",
     file |-> <<>>, content |-> NoClass, schema |-> <<>>]

\* lines 616-630: java_class puts datetime.date.today() in the header
\* comment as day/month/two-digit year, and in the @version line as
\* year-month-day; filename and body are those of the class
java_class_undated(e, time) ==
    [e EXCEPT !.content =
        [stmt |-> e.content.stmt, filename |-> e.content.filename,
         path |-> e.content.path, ns |-> e.content.ns,
         body |-> e.content.body,
         header_date |-> <<>>, version_date |-> <<>>]]

java_class(e, time) ==
    [e EXCEPT !.content =
        [stmt |-> e.content.stmt, filename |-> e.content.filename,
         path |-> e.content.path, ns |-> e.content.ns,
         body |-> e.content.body,
         header_date |-> <<time.day, time.month, time.year % 100>>,
         version_date |-> <<time.year, time.month, time.day>>]]

\* lines 108-115: what setup_ctx does: the exit code of sys.exit, or -1
\* when it returns
setup_ctx_directory_first(ctx) ==
    IF ctx.format \in {<<"java">>, <<"jpyang">>} /\ ctx.directory = <<>>
    THEN 1
    ELSE IF ctx.jpyang_help THEN 0 ELSE -1

setup_ctx(ctx) ==
    IF ctx.jpyang_help THEN 0
    ELSE IF ctx.format \in {<<"java">>, <<"jpyang">>} /\ ctx.directory = <<>>
    THEN 1
    ELSE -1

\* setup_ctx is called; after it pyang calls emit of the plug-in of the
\* output format, which is this one for the formats java and jpyang
SetupCtx ==
    /\ pc = "setup"
    /\ exit_code' = setup_ctx(opts)
    /\ stderr' = IF setup_ctx(opts) = 1
                 THEN Append(stderr, Message("directory", 0)) ELSE stderr
    /\ pc' = IF setup_ctx(opts) # -1 THEN "exit"
             ELSE IF opts.format \in {<<"java">>, <<"jpyang">>} THEN "emit"
             ELSE "other"
    /\ UNCHANGED <<fs, cwd, tree, modules, opts, today, mi, ev, todo, files,
                   index, javadoc>>

\* line 134: directory.replace('.', '/')
replace(directory) ==
    [i \in DOMAIN directory |->
        IF directory[i] = "." THEN "/" ELSE directory[i]]

\* line 136: the errno of os.makedirs(d), "ok" for none.  The path is
\* absent and can be made; or its last component is there, as a directory,
\* as a directory that cannot be entered, or as a file; or a component
\* above the last is a file; or the path cannot be made for another reason
makedirs(path) ==
    CASE path = "absent" -> "ok"
      [] path \in {"directory", "locked", "file"} -> "EEXIST"
      [] path = "file above" -> "ENOTDIR"
      [] OTHER -> "EACCES"

\* line 143: the errno of os.chdir(d) after makedirs
chdir(path) ==
    CASE path \in {"absent", "directory"} -> "ok"
      [] path = "file" -> "ENOTDIR"
      [] path = "file above" -> "ENOTDIR"
      [] OTHER -> "EACCES"

\* lines 137-141: the OSError of makedirs is passed over
makedirs_passed(errno) == errno \in {"ok", "EEXIST"}

\* lines 144-151: the OSError of chdir is passed over
chdir_passed(errno) == errno \in {"ok", "ENOTDIR"}

\* lines 131-153: the output directory is made and entered
EnterDirectory ==
    /\ pc = "emit"
    /\ pc' = IF /\ makedirs_passed(makedirs(fs))
                /\ chdir_passed(chdir(fs))
             THEN "loop" ELSE "oserror"
    /\ cwd' = IF makedirs_passed(makedirs(fs)) /\ chdir(fs) = "ok"
              THEN replace(opts.directory) ELSE cwd
    /\ UNCHANGED <<fs, tree, modules, opts, today, mi, ev, todo, files,
                   stderr, index, javadoc, exit_code>>

AtModule == pc = "loop" /\ mi <= Len(modules) /\ is_module(modules[mi])

\* the effects of generate_classes for the statement the loop is at
Effects == generate_classes(modules[mi], opts)

\* the next effect of fx is of this kind
NextIs(fx, kind) ==
    ev < Len(fx.events) /\ fx.events[ev + 1].kind = kind

\* lines 156-173: the schema is written and generate_classes is called
WriteSchema ==
    /\ AtModule /\ ~opts.no_schema
    /\ search_one(modules[mi], "namespace") # 0
    /\ search_one(modules[mi], "prefix") # 0
    /\ files' = Append(files, SchemaFile(modules[mi], opts))
    /\ pc' = "classes" /\ ev' = 0 /\ todo' = Effects
    /\ UNCHANGED <<fs, cwd, tree, modules, opts, today, mi, stderr, index, javadoc,
                   exit_code>>

\* lines 158-159: search_one returns None and .arg raises AttributeError
SchemaRaises ==
    /\ AtModule /\ ~opts.no_schema
    /\ \/ search_one(modules[mi], "namespace") = 0
       \/ search_one(modules[mi], "prefix") = 0
    /\ pc' = "raised"
    /\ UNCHANGED <<fs, cwd, tree, modules, opts, today, mi, ev, todo, files, stderr,
                   index, javadoc, exit_code>>

\* line 156: --jpyang-no-schema; line 173: generate_classes is called
SkipSchema ==
    /\ AtModule /\ opts.no_schema
    /\ pc' = "classes" /\ ev' = 0 /\ todo' = Effects
    /\ UNCHANGED <<fs, cwd, tree, modules, opts, today, mi, files, stderr, index,
                   javadoc, exit_code>>

\* a warning of generate_class or extract_keys goes to sys.stderr
PrintWarningOf(fx) ==
    /\ NextIs(fx, "warn")
    /\ stderr' = Append(stderr, fx.events[ev + 1])
    /\ ev' = ev + 1
    /\ UNCHANGED <<fs, cwd, tree, modules, opts, today, pc, mi, todo, files, index,
                   javadoc, exit_code>>

PrintWarning == pc = "classes" /\ PrintWarningOf(todo)

\* lines 390-400 and 562-574: a class file is written, as java_class
\* renders it
WriteClassOf(fx) ==
    /\ NextIs(fx, "class")
    /\ files' = Append(files, java_class(fx.events[ev + 1], today))
    /\ ev' = ev + 1
    /\ UNCHANGED <<fs, cwd, tree, modules, opts, today, pc, mi, todo, stderr, index,
                   javadoc, exit_code>>

WriteClass == pc = "classes" /\ WriteClassOf(todo)

\* generate_classes is through: it raised, and the exception leaves emit,
\* or it returned (lines 174-179) and the loop goes on
ClassesEndOf(fx) ==
    /\ ev = Len(fx.events)
    /\ pc' = IF fx.raised THEN "raised" ELSE "loop"
    /\ mi' = IF fx.raised THEN mi ELSE mi + 1
    /\ stderr' = IF ~fx.raised /\ tree[modules[mi]].keyword = "submodule"
                 THEN Append(stderr, Message("submodule", modules[mi]))
                 ELSE stderr
    /\ UNCHANGED <<fs, cwd, tree, modules, opts, today, ev, todo, files, index,
                   javadoc, exit_code>>

ClassesEnd == pc = "classes" /\ ClassesEndOf(todo)

\* lines 204-206: fatal raises error.EmitError(self, exitCode), which ends
\* pyang with that exit code
fatal_returns(exitCode) == [raised |-> FALSE, exitCode |-> -1]

fatal(exitCode) == [raised |-> TRUE, exitCode |-> exitCode]

\* lines 180-184: neither module nor submodule: self.fatal()
Fatal ==
    /\ pc = "loop" /\ mi <= Len(modules) /\ ~is_module(modules[mi])
    /\ stderr' = Append(stderr, Message("error", modules[mi]))
    /\ exit_code' = fatal(1).exitCode
    /\ pc' = IF fatal(1).raised THEN "fatal" ELSE "loop"
    /\ mi' = IF fatal(1).raised THEN mi ELSE mi + 1
    /\ UNCHANGED <<fs, cwd, tree, modules, opts, today, ev, todo, files, index,
                   javadoc>>

\* the loop over modules is over
LoopDone ==
    /\ pc = "loop" /\ mi > Len(modules)
    /\ pc' = "index"
    /\ UNCHANGED <<fs, cwd, tree, modules, opts, today, mi, ev, todo, files, stderr,
                   index, javadoc, exit_code>>

\* lines 187-188: the names of the .java files that os.listdir finds in the
\* output directory; the directory holds what this pass has written into it
java_files == {files[i].file : i \in {j \in DOMAIN files : files[j].kind = "class"}}

\* an entry of the class hierarchy.  The nested list
\* ['Foo.java', ['Bar.java', ['Baz.java'], 'Qu.java']] is kept as its
\* entries in order, each with the depth of the list it is in:
\* Foo 0, Bar 1, Baz 2, Qu 1
Entry(stmt, filename, depth) ==
    [stmt |-> stmt, file |-> filename, depth |-> depth]

RECURSIVE generate_javadoc(_, _, _)
\* lines 577-595.  st is the hierarchy built so far, with the java files
\* not yet taken out of the listing
generate_javadoc(stmts, st, depth) ==
    IF stmts = <<>> THEN st
    ELSE IF extract_names(tree[Head(stmts)].arg)[1] \in st.java_files
    THEN generate_javadoc(Tail(stmts),
             generate_javadoc(substmts(Head(stmts)),
                 [hierarchy |->
                      Append(st.hierarchy,
                          Entry(Head(stmts),
                                extract_names(tree[Head(stmts)].arg)[1],
                                depth)),
                  java_files |->
                      st.java_files
                          \ {extract_names(tree[Head(stmts)].arg)[1]}],
                 depth + 1),
             depth)
    ELSE generate_javadoc(Tail(stmts), st, depth)

\* line 191: os.chdir(wd), wd being what os.getcwd() gave at line 132
chdir_back(dir) == <<"wd">>

\* lines 185-191 and 1324-1372: the class hierarchy is computed from the
\* listing of the output directory, gen_package writes it into
\* package-info.java, and emit changes back to the directory it was
\* entered in
WriteIndex ==
    /\ pc = "index"
    /\ index' = [written |-> TRUE,
                 hierarchy |->
                     generate_javadoc(modules,
                         [hierarchy |-> <<>>, java_files |-> java_files],
                         0).hierarchy]
    /\ cwd' = chdir_back(cwd)
    /\ pc' = "javadoc"
    /\ UNCHANGED <<fs, tree, modules, opts, today, mi, ev, todo, files, stderr,
                   javadoc, exit_code>>

\* line 194: if javadir
javadoc_always(ctx) == TRUE

javadoc_wanted(ctx) == ctx.javadoc_directory # <<>>

\* lines 193-200: os.system runs javadoc on the generated files; its exit
\* status is not looked at
Javadoc ==
    /\ pc = "javadoc" /\ javadoc_wanted(opts)
    /\ \E status \in {0, 1} :
          javadoc' = Append(javadoc, [d |-> opts.javadoc_directory,
                                      status |-> status])
    /\ pc' = "done"
    /\ UNCHANGED <<fs, cwd, tree, modules, opts, today, mi, ev, todo, files, stderr,
                   index, exit_code>>

\* line 194: no --jpyang-javadoc directory
NoJavadoc ==
    /\ pc = "javadoc" /\ ~javadoc_wanted(opts)
    /\ pc' = "done"
    /\ UNCHANGED <<fs, cwd, tree, modules, opts, today, mi, ev, todo, files, stderr,
                   index, javadoc, exit_code>>

---------------------------------------------------------------------------
(* The inputs: statement trees as pyang's parser builds them, and option   *)
(* sets.                                                                   *)

\* identifiers of the leaf / leaf-list children, by position
Names == <<"a", "b", "c", "d">>

Types == {<<"string">>, <<"uint32">>, <<"decimal64">>}

Absent == <<>>

\* a leaf or leaf-list with its type, mandatory and unique sub-statements
LeafKind(kw, type, mandatory, unique) ==
    [keyword |-> kw, type |-> type, mandatory |-> mandatory,
     unique |-> unique]

\* leaves and leaf-lists of every type
TypedLeaves ==
    {LeafKind(kw, t, Absent, Absent) : kw \in {"leaf", "leaf-list"}, t \in Types}

\* leaves of every type
PlainLeaves == {LeafKind("leaf", t, Absent, Absent) : t \in Types}

MandatoryLeaf == LeafKind("leaf", <<"string">>, <<"true">>, Absent)
OptionalLeaf == LeafKind("leaf", <<"string">>, <<"false">>, Absent)
UniqueLeaf == LeafKind("leaf", <<"string">>, Absent, <<"true">>)

\* every kind of leaf
LeafKinds == TypedLeaves \cup {MandatoryLeaf, OptionalLeaf, UniqueLeaf}

MkLeaf(name, k) ==
    Stmt(k.keyword, <<name>>,
         <<Stmt("type", k.type, <<>>)>>
         \o (IF k.mandatory # Absent
             THEN <<Stmt("mandatory", k.mandatory, <<>>)>> ELSE <<>>)
         \o (IF k.unique # Absent
             THEN <<Stmt("unique", k.unique, <<>>)>> ELSE <<>>))

\* the sequences of at most n leaves of the given kinds, as statements
\* named by position
LeafSeqs(kinds, n) ==
    UNION {{[i \in 1..len |-> MkLeaf(Names[i], ks[i])] :
               ks \in [1..len -> kinds]} : len \in 0..n}

\* key arguments: 1..MaxKeys identifiers, repeats and absent leaves included
KeyArgs ==
    UNION {{Join(toks) : toks \in [1..len -> {<<"a">>, <<"b">>}]} :
              len \in 1..MaxKeys}

\* a container, or a list with a key argument
ClassKinds ==
    {[keyword |-> "container", key |-> Absent]}
    \cup {[keyword |-> "list", key |-> k] : k \in KeyArgs}

MkClass(c, name, children) ==
    Stmt(c.keyword, <<name>>,
         (IF c.keyword = "list" THEN <<Stmt("key", c.key, <<>>)>> ELSE <<>>)
         \o children)

\* the class that encloses a nested class: a container, or a list keyed by
\* its own string leaf k
MkOuter(kw, children) ==
    IF kw = "list"
    THEN Stmt("list", <<"y">>,
              <<Stmt("key", <<"k">>, <<>>),
                MkLeaf("k", LeafKind("leaf", <<"string">>, Absent, Absent))>>
              \o children)
    ELSE Stmt("container", <<"y">>, children)

MkModule(children) ==
    Stmt("module", <<"m">>,
         <<Stmt("namespace", <<"urn:m">>, <<>>),
           Stmt("prefix", <<"p">>, <<>>)>> \o children)

\* a module with another name and prefix
MkNamed(name, prefix, children) ==
    Stmt("module", <<name>>,
         <<Stmt("namespace", <<"urn:", name>>, <<>>),
           Stmt("prefix", <<prefix>>, <<>>)>> \o children)

MkSubmodule(children) ==
    Stmt("submodule", <<"s">>,
         <<Stmt("belongs-to", <<"m">>, <<Stmt("prefix", <<"p">>, <<>>)>>)>>
         \o children)

\* one class with up to MaxLeaves leaves, at the top of a module
Wide ==
    {<<MkModule(<<MkClass(c, "x", ls)>>)>> :
        c \in ClassKinds,
        ls \in LeafSeqs(TypedLeaves \cup {MandatoryLeaf}, MaxLeaves)}

\* a class with up to MaxInner leaves inside a container or a list
Nested ==
    {<<MkModule(<<MkOuter(o, <<MkClass(c, n, ls)>>)>>)>> :
        o \in {"container", "list"}, c \in ClassKinds, n \in {"x", "y"},
        ls \in LeafSeqs(PlainLeaves, MaxInner)}

\* leaves at the top of a module
Flat == {<<MkModule(ls)>> : ls \in LeafSeqs(LeafKinds, MaxInner)}

\* other top-level statements: a submodule, a statement that is neither a
\* module nor a submodule, statements that give no member, and leaves with
\* mandatory false or unique true inside a class
Other ==
    {<<MkSubmodule(<<Stmt("container", <<"x">>, <<>>)>>)>>,
     <<MkModule(<<>>), Stmt("container", <<"x">>, <<>>)>>,
     <<MkModule(<<Stmt("uses", <<"g">>, <<>>),
                  Stmt("container", <<"x">>,
                       <<Stmt("uses", <<"g">>, <<>>)>>)>>)>>}
    \cup {<<MkModule(<<MkClass(c, "x",
                 <<MkLeaf("a", LeafKind("leaf", <<"string">>, Absent, Absent)),
                   MkLeaf("b", k)>>)>>)>> :
             c \in {[keyword |-> "container", key |-> Absent],
                    [keyword |-> "list", key |-> <<"a">>]},
             k \in {OptionalLeaf, UniqueLeaf}}

\* several top-level statements: a statement that is neither a module nor
\* a submodule between two modules, and a submodule before a module
Several ==
    {<<MkModule(<<Stmt("container", <<"x">>, <<>>)>>),
       Stmt("container", <<"z">>, <<>>),
       MkNamed("n", "q", <<Stmt("container", <<"y">>, <<>>)>>)>>,
     <<MkSubmodule(<<Stmt("container", <<"x">>, <<>>)>>),
       MkModule(<<Stmt("container", <<"y">>, <<>>)>>)>>,
     <<MkModule(<<Stmt("container", <<"x">>, <<>>)>>),
       MkNamed("n", "q", <<Stmt("container", <<"y">>, <<>>)>>)>>}

\* a module named as its prefix, with classes side by side and one in
\* another; data nodes under a choice, among them a list whose key names
\* no leaf; a class named as the prefix; a class with two container
\* children and a leaf between them; a leaf of a type that is not
\* recognized
Named ==
    {<<MkNamed("p", "p",
          <<Stmt("container", <<"y">>,
                 <<MkLeaf("a", LeafKind("leaf", <<"string">>, Absent, Absent)),
                   Stmt("container", <<"x">>, <<>>)>>),
            Stmt("container", <<"z">>, <<>>)>>)>>,
     <<MkModule(<<Stmt("choice", <<"c">>,
                       <<MkLeaf("a", LeafKind("leaf", <<"string">>,
                                              Absent, Absent)),
                         Stmt("container", <<"y">>, <<>>),
                         Stmt("list", <<"z">>,
                              <<Stmt("key", <<"b">>, <<>>)>>)>>),
                  Stmt("container", <<"x">>,
                       <<MkLeaf("b", LeafKind("leaf", <<"string">>,
                                              Absent, Absent))>>)>>)>>,
     <<MkModule(<<Stmt("container", <<"p">>, <<>>)>>)>>,
     <<MkModule(<<Stmt("container", <<"y">>,
                       <<Stmt("container", <<"x">>, <<>>),
                         MkLeaf("a", LeafKind("leaf", <<"string">>,
                                              Absent, Absent)),
                         Stmt("container", <<"z">>, <<>>)>>)>>)>>,
     <<MkModule(<<Stmt("container", <<"x">>,
                       <<MkLeaf("a", LeafKind("leaf", <<"decimal64">>,
                                              Absent, Absent))>>)>>)>>,
     <<MkModule(<<Stmt("container", <<"x">>,
                       <<Stmt("description", <<"a", ",", SP, "b">>, <<>>),
                         MkLeaf("a", LeafKind("leaf", <<"string">>,
                                              Absent, Absent))>>)>>)>>}

\* the inputs that are run with every option set on every date
Small == Flat \cup Other \cup Several \cup Named

Inputs == Wide \cup Nested \cup Small

\* ctx.opts: the debug and verbose flags in every combination, and
\* --jpyang-no-schema; the format is java and the package is a.b
Flags ==
    {[debug |-> d, verbose |-> v, no_schema |-> FALSE,
      javadoc_directory |-> <<>>, jpyang_help |-> FALSE,
      format |-> <<"java">>, directory |-> <<"a", ".", "b">>] :
         d, v \in BOOLEAN}
    \cup {[debug |-> FALSE, verbose |-> FALSE, no_schema |-> TRUE,
           javadoc_directory |-> <<>>, jpyang_help |-> FALSE,
           format |-> <<"java">>, directory |-> <<"a", ".", "b">>]}

\* and with --jpyang-javadoc
Options ==
    Flags \cup {[debug |-> FALSE, verbose |-> v, no_schema |-> n,
                 javadoc_directory |-> <<"doc">>, jpyang_help |-> FALSE,
                 format |-> <<"java">>, directory |-> <<"a", ".", "b">>] :
                    v, n \in BOOLEAN}

\* and with --jpyang-help or not, in every output format, with and without
\* the option -d
SetupOptions ==
    {[debug |-> FALSE, verbose |-> FALSE, no_schema |-> FALSE,
      javadoc_directory |-> <<>>, jpyang_help |-> h,
      format |-> f, directory |-> d] :
         h \in BOOLEAN, f \in {<<"java">>, <<"jpyang">>, <<"tree">>},
         d \in {<<>>, <<"a", ".", "b">>}}

\* what the file system may have at the path of the output directory
FileSystems ==
    {"absent", "directory", "locked", "file", "file above", "denied"}

\* days that a pass may run on
Dates ==
    {[day |-> 5, month |-> 11, year |-> 2012],
     [day |-> 6, month |-> 11, year |-> 2012],
     [day |-> 5, month |-> 11, year |-> 2112]}

\* the first day
Day1 == [day |-> 5, month |-> 11, year |-> 2012]

\* the options, days and file systems that an input is run with: every
\* input with the flags, the small ones with every option on every day,
\* and those with several top-level statements also in every setup and on
\* every file system
Environments(input) ==
    (Flags \X {Day1} \X {"absent"})
    \cup (IF input \in Small
          THEN Options \X Dates \X {"absent"} ELSE {})
    \cup (IF input \in Several
          THEN (SetupOptions \X {Day1} \X {"absent"})
               \cup (Options \X {Day1} \X FileSystems)
          ELSE {})

Init ==
    /\ \E input \in Inputs :
          /\ tree = FlattenAll(input, 0, <<>>)
          /\ modules = SelectSeq([j \in 1..Len(FlattenAll(input, 0, <<>>)) |-> j],
                           LAMBDA j : FlattenAll(input, 0, <<>>)[j].parent = 0)
          /\ \E env \in Environments(input) :
                opts = env[1] /\ today = env[2] /\ fs = env[3]
    /\ pc = "setup"
    /\ mi = 1
    /\ todo = [events |-> <<>>, raised |-> FALSE]
    /\ ev = 0
    /\ files = <<>>
    /\ stderr = <<>>
    /\ index = [written |-> FALSE, hierarchy |-> <<>>]
    /\ javadoc = <<>>
    /\ exit_code = -1
    /\ cwd = <<"wd">>

Next ==
    \/ SetupCtx
    \/ EnterDirectory
    \/ WriteSchema
    \/ SchemaRaises
    \/ SkipSchema
    \/ PrintWarning
    \/ WriteClass
    \/ ClassesEnd
    \/ Fatal
    \/ LoopDone
    \/ WriteIndex
    \/ Javadoc
    \/ NoJavadoc

Spec == Init /\ [][Next]_vars

---------------------------------------------------------------------------
(* Vocabulary of the properties: what the artifacts written so far say,    *)
(* and what the statement tree says, read off the tree directly.           *)

\* the "node" records of the schema files written so far
SchemaRecords ==
    UNION {{files[i].schema[j] : j \in DOMAIN files[i].schema} :
              i \in DOMAIN files}

\* the classes written so far
ClassesWritten ==
    {files[i].content : i \in {j \in DOMAIN files : files[j].kind = "class"}}

\* the classes written so far for list statements
ListClasses == {c \in ClassesWritten : tree[c.stmt].keyword = "list"}

\* the constructors of a class, in the order of the class body
Constructors(c) == SelectSeq(c.body, LAMBDA m : m.op = "constructor")

\* stmt has a sub-statement with this keyword and argument
Has(stmt, kw, arg) ==
    \E j \in DOMAIN tree :
        tree[j].parent = stmt /\ tree[j].keyword = kw /\ tree[j].arg = arg

\* the argument of the key sub-statement of stmt, empty when it has none
KeyArg(stmt) ==
    IF \E j \in DOMAIN tree : tree[j].parent = stmt /\ tree[j].keyword = "key"
    THEN tree[CHOOSE j \in DOMAIN tree :
                  /\ tree[j].parent = stmt /\ tree[j].keyword = "key"
                  /\ \A k \in 1..(j - 1) :
                        ~(tree[k].parent = stmt /\ tree[k].keyword = "key")].arg
    ELSE <<>>

\* name stands in arg between blanks or the ends of arg
IsToken(arg, name) ==
    \E i \in DOMAIN arg :
        /\ i + Len(name) - 1 <= Len(arg)
        /\ SubSeq(arg, i, i + Len(name) - 1) = name
        /\ (i = 1 \/ arg[i - 1] = SP)
        /\ (i + Len(name) - 1 = Len(arg) \/ arg[i + Len(name)] = SP)

\* the number of blanks of arg
Blanks(arg) == Cardinality({i \in DOMAIN arg : arg[i] = SP})

\* names are the pieces of arg between its blanks, in the order of arg
TakenApart(arg, names) ==
    /\ Len(names) = Blanks(arg) + 1
    /\ Join(names) = arg
    /\ \A i \in DOMAIN names : \A k \in DOMAIN names[i] : names[i][k] # SP

\* s is a statement directly inside a statement with keyword kw
ChildOf(s, kw) ==
    tree[s].parent # 0 /\ tree[tree[s].parent].keyword = kw

\* s is a leaf that the key argument of its list names
IsKeyLeaf(s) ==
    /\ tree[s].keyword = "leaf" /\ ChildOf(s, "list")
    /\ IsToken(KeyArg(tree[s].parent), tree[s].arg)

\* s is a leaf or leaf-list whose type is neither string nor uint32
Unrecognized(s) ==
    /\ tree[s].keyword \in {"leaf", "leaf-list"}
    /\ \E j \in DOMAIN tree :
          /\ tree[j].parent = s /\ tree[j].keyword = "type"
          /\ tree[j].arg # <<"string">> /\ tree[j].arg # <<"uint32">>

\* the names of the parameters of a constructor, without the suffix Value
ParamNames(m) ==
    [i \in DOMAIN m.params |->
        SubSeq(m.params[i][2], 1, Len(m.params[i][2]) - 1)]

\* the wrapped (com.tailf.confm.xs) types a member mentions
WrappedTypes(m) ==
    ({m.typ} \cup {m.params[i][1] : i \in DOMAIN m.params})
        \cap {ConfmString, ConfmUnsignedInt}

\* the unsupported-type diagnostics printed so far for statement s
Diagnostics(s) ==
    {i \in DOMAIN stderr : stderr[i].kind = "warn" /\ stderr[i].stmt = s}

\* every identifier of the key argument of every list names a leaf of it
KeysResolve ==
    \A l \in DOMAIN tree : tree[l].keyword = "list" =>
        \A i \in DOMAIN split(KeyArg(l)) :
            \E s \in DOMAIN tree :
                /\ tree[s].parent = l /\ tree[s].keyword = "leaf"
                /\ tree[s].arg = split(KeyArg(l))[i]

---------------------------------------------------------------------------
(* Schema Emitter: occurrence bounds.                                      *)

\* a leaf with mandatory true, directly inside a list, that is not a key of
\* the list and has no unique true
MandatoryListLeaf(s) ==
    /\ tree[s].keyword = "leaf" /\ ChildOf(s, "list")
    /\ Has(s, "mandatory", <<"true">>)
    /\ ~Has(s, "unique", <<"true">>)
    /\ ~IsKeyLeaf(s)

\* C1 as stated: every mandatory=true leaf that is a direct child of a list,
\* not a key of it and not unique, has min_occurs 1 and max_occurs
\* unbounded ("-1") in its schema record.
C1_MandatoryListLeafUnbounded ==
    \A r \in SchemaRecords :
        MandatoryListLeaf(r.stmt) =>
            r.min_occurs = "1" /\ r.max_occurs = "-1"

\* C1 amended: every mandatory=true leaf that is a direct child of a list,
\* not a key of it and not unique, has min_occurs 1 and max_occurs 1 in
\* its schema record: the parent rule of line 349 sets max_occurs to 1 for
\* every child of a list.
C1_MandatoryListLeafOnce ==
    \A r \in SchemaRecords :
        MandatoryListLeaf(r.stmt) =>
            r.min_occurs = "1" /\ r.max_occurs = "1"

\* a schema file with the record of such a leaf has been written
C1_Witness ==
    \E r \in SchemaRecords : MandatoryListLeaf(r.stmt)

\* a list directly inside a container or a list, without unique true
NestedList(s) ==
    /\ tree[s].keyword = "list"
    /\ (ChildOf(s, "container") \/ ChildOf(s, "list"))
    /\ ~Has(s, "unique", <<"true">>)

\* C2: the rule that a parent container/list forces max_occurs 1 does not
\* apply to a list: the schema record of every list inside a container or
\* a list, without unique true, keeps max_occurs unbounded ("-1").
C2_NestedListUnbounded ==
    \A r \in SchemaRecords :
        NestedList(r.stmt) => r.max_occurs = "-1"

\* C3: every key leaf of a list, of a single or a composite key, has the
\* bounds {1, 1} in its schema record, and the Schema Emitter takes a leaf
\* of a list for a key exactly when the Class Model Builder does (which
\* gives a key leaf no unset method): for a leaf without mandatory true,
\* min_occurs is 1 iff the class of its list has no unset method for it.
C3_KeyLeafExactlyOnce ==
    /\ \A r \in SchemaRecords :
          IsKeyLeaf(r.stmt) => r.min_occurs = "1" /\ r.max_occurs = "1"
    /\ \A r \in SchemaRecords : \A c \in ListClasses :
          (/\ tree[r.stmt].keyword = "leaf"
           /\ tree[r.stmt].parent = c.stmt
           /\ ~Has(r.stmt, "mandatory", <<"true">>))
          => (r.min_occurs = "1"
                <=> ~\E k \in DOMAIN c.body :
                        /\ c.body[k].op = "unset_value"
                        /\ c.body[k].stmt = r.stmt)

\* C4: the schema record of every leaf directly inside a container has
\* max_occurs 1, whether or not mandatory is set, and min_occurs 1 when
\* mandatory is true.
C4_ContainerLeafAtMostOnce ==
    \A r \in SchemaRecords :
        (tree[r.stmt].keyword = "leaf" /\ ChildOf(r.stmt, "container"))
        => /\ r.max_occurs = "1"
           /\ (Has(r.stmt, "mandatory", <<"true">>) => r.min_occurs = "1")

\* a schema file with the record of a mandatory leaf of a container has
\* been written
C4_Witness ==
    \E r \in SchemaRecords :
        /\ tree[r.stmt].keyword = "leaf" /\ ChildOf(r.stmt, "container")
        /\ Has(r.stmt, "mandatory", <<"true">>)
        /\ r.min_occurs = "1"

---------------------------------------------------------------------------
(* Key Extractor and the constructors of a list class.                     *)

\* C5: for every list whose class is written, the wrapped key sequence
\* (the parameters of the constructor of mode 1) and the primitive key
\* sequence (the parameters of the constructors of modes 2 and 3) hold
\* exactly the identifiers of the key argument, one per blank-separated
\* token, in the order of the argument, repeated identifiers kept, and the
\* same identifiers at the same positions.
C5_KeysInTextualOrder ==
    \A c \in ListClasses :
        \A k \in DOMAIN c.body :
            (c.body[k].op = "constructor" /\ c.body[k].mode # 0)
            => TakenApart(KeyArg(c.stmt), ParamNames(c.body[k]))

\* the class of a list with the key argument "b a" has been written
C5_Witness ==
    \E c \in ListClasses :
        /\ KeyArg(c.stmt) = <<"b", SP, "a">>
        /\ \E k \in DOMAIN c.body :
              c.body[k].op = "constructor" /\ c.body[k].mode = 1

\* the type argument of the leaf of list l that identifier name names
KeyLeafHasType(l, name, t) ==
    \E s \in DOMAIN tree :
        /\ tree[s].parent = l /\ tree[s].keyword = "leaf"
        /\ tree[s].arg = name /\ Has(s, "type", t)

\* no key of list l is a uint32 leaf: every key is held as a String
AllKeysString(l) ==
    \A s \in DOMAIN tree :
        (tree[s].parent = l /\ IsKeyLeaf(s)) => ~Has(s, "type", <<"uint32">>)

\* C6: the class of a list has exactly 3 constructors when every key is of
\* a type held as String and exactly 4 otherwise; the 4th is the one of
\* primitive types, and each of its parameters has a type other than the
\* wrapped type of the same key, long for a uint32 key.
C6_ConstructorsByKeyTypes ==
    \A c \in ListClasses :
        /\ AllKeysString(c.stmt) <=> Len(Constructors(c)) = 3
        /\ ~AllKeysString(c.stmt) =>
              /\ Len(Constructors(c)) = 4
              /\ Constructors(c)[2].mode = 1
              /\ Constructors(c)[4].mode = 3
              /\ \A i \in DOMAIN Constructors(c)[4].params :
                    /\ Constructors(c)[4].params[i][1]
                          # Constructors(c)[2].params[i][1]
                    /\ KeyLeafHasType(c.stmt,
                           ParamNames(Constructors(c)[4])[i], <<"uint32">>)
                       => /\ Constructors(c)[4].params[i][1] = JavaLong
                          /\ Constructors(c)[2].params[i][1]
                                = ConfmUnsignedInt

\* the class of a list with the key "a b", a of type uint32 and b of type
\* string, has been written
C6_Witness ==
    \E c \in ListClasses :
        /\ KeyArg(c.stmt) = <<"a", SP, "b">>
        /\ KeyLeafHasType(c.stmt, <<"a">>, <<"uint32">>)
        /\ KeyLeafHasType(c.stmt, <<"b">>, <<"string">>)
        /\ Len(Constructors(c)) = 4

\* C7 as stated: no class of a list has a constructor without arguments:
\* every constructor of it takes one argument per key.
C7_NoEmptyListConstructor ==
    \A c \in ListClasses :
        \A i \in DOMAIN Constructors(c) :
            Len(Constructors(c)[i].params) = Blanks(KeyArg(c.stmt)) + 1

\* C7 amended: the class of a list has exactly one constructor without
\* arguments, its first (mode 0, which the add method without arguments of
\* the enclosing class calls); every other constructor of it takes one
\* argument per identifier of the key argument.
C7_OneEmptyListConstructor ==
    \A c \in ListClasses :
        /\ Constructors(c) # <<>>
        /\ Constructors(c)[1].mode = 0
        /\ Constructors(c)[1].params = <<>>
        /\ \A i \in 2..Len(Constructors(c)) :
              Len(Constructors(c)[i].params) = Blanks(KeyArg(c.stmt)) + 1

\* the class of a list with a key of two identifiers has been written
C7_Witness ==
    \E c \in ListClasses :
        /\ Blanks(KeyArg(c.stmt)) = 1
        /\ Len(Constructors(c)) >= 3

---------------------------------------------------------------------------
(* Unrecognized types and diagnostics.                                     *)

\* C8: for every leaf or leaf-list of an unrecognized type, wherever it
\* stands among its siblings and whatever the debug and verbose flags, the
\* pass does not abort (a module whose keys all name leaves is compiled to
\* the end) and every member generated for the node uses no wrapped type
\* but com.tailf.confm.xs.String.
C8_UnrecognizedTypeIsString ==
    /\ \A c \in ClassesWritten : \A k \in DOMAIN c.body :
          (c.body[k].stmt # 0 /\ Unrecognized(c.body[k].stmt))
          => WrappedTypes(c.body[k]) \subseteq {ConfmString}
    /\ (/\ pc = "raised"
        /\ tree[modules[mi]].keyword = "module"
        /\ KeysResolve)
       => ~\E s \in DOMAIN tree : Unrecognized(s)

\* class files as java_class renders them on the day of the pass
Rendered(classes) ==
    [i \in DOMAIN classes |-> java_class(classes[i], today)]

RECURSIVE ArtifactsFrom(_, _)
\* the artifacts that the modules from the k-th on give with the options o
ArtifactsFrom(k, o) ==
    IF k > Len(modules) THEN <<>>
    ELSE (IF o.no_schema THEN <<>> ELSE <<SchemaFile(modules[k], o)>>)
         \o Rendered(SelectSeq(generate_classes(modules[k], o).events,
                                LAMBDA e : e.kind = "class"))
         \o ArtifactsFrom(k + 1, o)

\* C9: diagnostics do not change the generated content: the artifacts a
\* finished pass has written are those that the same statement tree gives
\* with any other setting of the debug and verbose flags.
C9_FlagsDoNotChangeArtifacts ==
    pc = "done" =>
        \A o \in Options :
            o.no_schema = opts.no_schema => files = ArtifactsFrom(1, o)

\* C10: in one pass exactly one unsupported-type diagnostic is printed for
\* every leaf or leaf-list of an unrecognized type, key leaves of nested
\* and top-level lists included: never more than one, and not none once
\* the pass is finished.
C10_OneDiagnosticPerNode ==
    \A s \in DOMAIN tree :
        Unrecognized(s) =>
            /\ Cardinality(Diagnostics(s)) <= 1
            /\ (pc = "done" => Cardinality(Diagnostics(s)) = 1)

---------------------------------------------------------------------------
(* Determinism of the output.                                               *)

\* the artifacts as they would be written on the day d
OnDate(written, d) ==
    [i \in DOMAIN written |->
        IF written[i].kind = "class" THEN java_class(written[i], d)
        ELSE written[i]]

---------------------------------------------------------------------------
(* Accessors of key leaves.                                                 *)

\* the generators of the members that the class c has for the statement s
OpsFor(c, s) == {c.body[i].op : i \in {j \in DOMAIN c.body : c.body[j].stmt = s}}

\* a constructor of the class c takes a value for the statement s
ConstructorArgument(c, s) ==
    \E i \in DOMAIN c.body :
        /\ c.body[i].op = "constructor"
        /\ \E k \in DOMAIN c.body[i].params :
              ParamNames(c.body[i])[k] = tree[s].arg

---------------------------------------------------------------------------
(* Class units and the files that hold them.                                *)

\* the i-th artifact written is a class file that no later write replaces:
\* it is what the output directory holds under its name
OnDisk(i) ==
    /\ files[i].kind = "class"
    /\ \A j \in DOMAIN files : j > i => files[j].file # files[i].file

\* C13: when a pass is finished every container and every list statement
\* of the tree, at any depth, has its own class unit in the output
\* directory: none is left without a class, and no class unit is replaced
\* by the unit of another statement or by that of the module root.
C13_OneClassUnitPerContainerOrList ==
    pc = "done" =>
        \A s \in DOMAIN tree :
            tree[s].keyword \in {"container", "list"} =>
                \E i \in DOMAIN files : OnDisk(i) /\ files[i].content.stmt = s

---------------------------------------------------------------------------
(* Schema Emitter: which statements have a record, and in which order.      *)

RECURSIVE TopOf(_)
\* the top-level statement that s is in
TopOf(s) == IF tree[s].parent = 0 THEN s ELSE TopOf(tree[s].parent)

RECURSIVE ReachedBySchema(_)
\* s is a module, or a container, list or leaf with nothing but such
\* statements between it and its module
ReachedBySchema(s) ==
    IF tree[s].parent = 0 THEN tree[s].keyword = "module"
    ELSE /\ tree[s].keyword \in {"container", "list", "leaf"}
         /\ ReachedBySchema(tree[s].parent)

\* the number of records that the schema file f has for the statement s
RecordsFor(f, s) == Cardinality({j \in DOMAIN f.schema : f.schema[j].stmt = s})

\* the records of f are in parse order (statements are numbered in parse
\* order): a parent before its descendants, siblings as they are parsed
InParseOrder(f) ==
    \A j, k \in DOMAIN f.schema :
        j < k => f.schema[j].stmt < f.schema[k].stmt

\* C14 as stated: a schema file has exactly one record for every module,
\* container, list and leaf statement of the module's tree and none for
\* any other statement, in parse order.
C14_RecordForEveryDataNode ==
    \A i \in DOMAIN files :
        files[i].kind = "schema" =>
            /\ \A s \in DOMAIN tree :
                  RecordsFor(files[i], s) =
                      IF /\ TopOf(s) = files[i].stmt
                         /\ tree[s].keyword
                               \in {"module", "container", "list", "leaf"}
                      THEN 1 ELSE 0
            /\ InParseOrder(files[i])

\* C14: a schema file has exactly one record for the module and for every
\* container, list and leaf statement that is reached from the module
\* through container, list and leaf statements only, and none for any
\* other statement; the records are in parse order, a parent's before its
\* descendants'.
C14_RecordForEveryReachedNode ==
    \A i \in DOMAIN files :
        files[i].kind = "schema" =>
            /\ \A s \in DOMAIN tree :
                  RecordsFor(files[i], s) =
                      IF TopOf(s) = files[i].stmt /\ ReachedBySchema(s)
                      THEN 1 ELSE 0
            /\ InParseOrder(files[i])

\* a schema file is written for a module that has a leaf and a container
\* under a choice, and after them a container with a leaf
C14_Witness ==
    \E i \in DOMAIN files :
        /\ files[i].kind = "schema"
        /\ \E s, t \in DOMAIN tree :
              /\ tree[s].keyword = "leaf" /\ ChildOf(s, "choice")
              /\ RecordsFor(files[i], s) = 0
              /\ tree[t].keyword = "leaf" /\ ChildOf(t, "container")
              /\ t > s /\ RecordsFor(files[i], t) = 1

---------------------------------------------------------------------------
(* Agreement of the schema with the classes.                                *)

\* C15: for every container or list statement that has both a class and a
\* schema record, of a module or of a submodule, the identifiers of the
\* record's tag-path are the class's path and the record's namespace is the
\* class's namespace.
C15_SchemaAgreesWithClass ==
    \A c \in ClassesWritten : \A r \in SchemaRecords :
        (r.stmt = c.stmt /\ tree[c.stmt].keyword \in {"container", "list"})
            => r.tagpath = c.path /\ r.namespace = c.ns

\* a class inside another class has both a class and a schema record
C15_Witness ==
    \E c \in ClassesWritten : \E r \in SchemaRecords :
        /\ r.stmt = c.stmt /\ tree[c.stmt].keyword \in {"container", "list"}
        /\ ChildOf(c.stmt, "list") /\ Len(c.path) = 2

---------------------------------------------------------------------------
(* The documentation index (package-info.java).                             *)

\* the entry under which the k-th entry of the hierarchy is nested: the
\* last entry before it that is one level up, 0 when it is at the top
ParentEntry(h, k) ==
    IF \E j \in 1..(k - 1) : h[j].depth = h[k].depth - 1
    THEN CHOOSE j \in 1..(k - 1) :
            /\ h[j].depth = h[k].depth - 1
            /\ \A l \in (j + 1)..(k - 1) : h[l].depth # h[k].depth - 1
    ELSE 0

\* C16: the hierarchy index of a finished pass contains every class file
\* generated in the pass exactly once, the module root classes included;
\* the class of a container or list is nested directly beneath the class of
\* its parent statement, and the classes of siblings are in statement order.
C16_IndexHoldsEveryClassOnce ==
    pc = "done" =>
        /\ index.written
        /\ \A f \in java_files :
              Cardinality({k \in DOMAIN index.hierarchy :
                              index.hierarchy[k].file = f}) = 1
        /\ \A k \in DOMAIN index.hierarchy :
              tree[index.hierarchy[k].stmt].keyword \in {"container", "list"}
                 => /\ ParentEntry(index.hierarchy, k) # 0
                    /\ index.hierarchy[ParentEntry(index.hierarchy, k)].stmt
                          = tree[index.hierarchy[k].stmt].parent
        /\ \A j, k \in DOMAIN index.hierarchy :
              (j < k /\ tree[index.hierarchy[j].stmt].parent
                           = tree[index.hierarchy[k].stmt].parent)
                 => index.hierarchy[j].stmt < index.hierarchy[k].stmt

---------------------------------------------------------------------------
(* Abort of the pass.                                                       *)

\* l is a list whose key argument names an identifier for which l has no
\* leaf sub-statement (identifiers are single symbols here)
KeyWithoutLeaf(l) ==
    /\ tree[l].keyword = "list"
    /\ \E j \in DOMAIN tree :
          /\ tree[j].parent = l /\ tree[j].keyword = "key"
          /\ \E i \in DOMAIN tree[j].arg :
                /\ tree[j].arg[i] # SP
                /\ ~Has(l, "leaf", <<tree[j].arg[i]>>)

RECURSIVE ReachedByClasses(_)
\* s is a top-level module or submodule, or a container or list with
\* nothing but containers and lists between it and such a statement
ReachedByClasses(s) ==
    IF tree[s].parent = 0 THEN tree[s].keyword \in {"module", "submodule"}
    ELSE /\ tree[s].keyword \in {"container", "list"}
         /\ ReachedByClasses(tree[s].parent)

\* the loop of emit has not got past the top-level statement that s is in
NotPast(s) == mi <= Len(modules) /\ modules[mi] <= TopOf(s)

\* there is no class file for the statement s
NoClassFor(s) ==
    \A i \in DOMAIN files :
        files[i].kind = "class" => files[i].content.stmt # s

\* C17 as stated: if the key of a list names an identifier for which the
\* list has no leaf, the pass aborts and the class of the list is never
\* written, wherever the list is.
C17_AnyKeyWithoutLeafAborts ==
    \A l \in DOMAIN tree :
        KeyWithoutLeaf(l) => NoClassFor(l) /\ NotPast(l) /\ pc # "done"

\* C17: if the key of a list that the class generator reaches (a list at
\* the top of a module or inside containers and lists only) names an
\* identifier for which the list has no leaf, the pass aborts: the class of
\* the list is never written, the loop of emit never gets past the module
\* of the list, and the pass does not finish.
C17_ReachedKeyWithoutLeafAborts ==
    \A l \in DOMAIN tree :
        (KeyWithoutLeaf(l) /\ ReachedByClasses(l))
            => NoClassFor(l) /\ NotPast(l) /\ pc # "done"

\* the pass has aborted with an exception, after a schema file was
\* written, on a tree with a list inside a list whose key names no leaf and
\* with nothing else that raises
C17_Witness ==
    /\ pc = "raised" /\ files # <<>>
    /\ ~\E s \in DOMAIN tree : Unrecognized(s)
    /\ \E l \in DOMAIN tree :
          KeyWithoutLeaf(l) /\ ReachedByClasses(l) /\ ChildOf(l, "list")

\* the top-level statement modules[k] is neither a module nor a submodule
Stray(k) == ~is_module(modules[k])

\* C18: a top-level statement that is neither a module nor a submodule
\* stops the pass with a fatal error of exit code 1: the loop never gets
\* past it, no artifact is written for it or for a statement after it, the
\* documentation index is not written and the documentation tool is not
\* run; the artifacts of the statements before it stay written.
C18_FatalStopsThePass ==
    /\ \A k \in DOMAIN modules :
          Stray(k) =>
             /\ mi <= k
             /\ (mi = k => pc \in {"loop", "fatal"})
             /\ \A i \in DOMAIN files :
                   TopOf(files[i].stmt) < modules[k]
             /\ ~index.written /\ javadoc = <<>>
    /\ pc = "fatal" => exit_code = 1
    /\ pc = "fatal" =>
          /\ Stray(mi)
          /\ \A j \in 1..(mi - 1) :
                \E i \in DOMAIN files :
                    files[i].kind = "class" /\ files[i].content.stmt = modules[j]

\* the pass has stopped at such a statement that stands between two
\* modules, with the artifacts of the first module written
C18_Witness ==
    /\ pc = "fatal" /\ mi = 2 /\ Len(modules) = 3
    /\ tree[modules[3]].keyword = "module"
    /\ \E i, j \in DOMAIN files :
          files[i].kind = "schema" /\ files[j].kind = "class"

\* C19: a submodule among the top-level statements is skipped: the pass
\* does not abort at it, no schema file and no class file is written from
\* it, and once the loop is past it a diagnostic for it has been printed.
C19_SubmoduleIsSkipped ==
    \A k \in DOMAIN modules :
        tree[modules[k]].keyword = "submodule" =>
            /\ ~(mi = k /\ pc = "raised")
            /\ \A i \in DOMAIN files : TopOf(files[i].stmt) # modules[k]
            /\ (mi > k =>
                  \E i \in DOMAIN stderr :
                      stderr[i] = Message("submodule", modules[k]))

\* C20: the documentation tool is run at most once: once when a javadoc
\* directory is configured and the pass has come to its end, never when
\* none is configured, and only after every schema file, every class file
\* and the documentation index are written; whatever its exit status, emit
\* ends normally with the same artifacts.
C20_JavadocOnceAtTheEnd ==
    /\ Len(javadoc) <= 1
    /\ opts.javadoc_directory = <<>> => javadoc = <<>>
    /\ pc = "done" =>
          Len(javadoc) = IF opts.javadoc_directory # <<>> THEN 1 ELSE 0
    /\ javadoc # <<>> =>
          /\ pc = "done" /\ exit_code = -1
          /\ mi > Len(modules) /\ index.written
          /\ files = ArtifactsFrom(1, opts)

\* the tool was run after two modules were compiled, and it failed
C20_Witness ==
    /\ pc = "done" /\ Len(modules) = 2
    /\ Len(javadoc) = 1 /\ javadoc[1].status = 1
    /\ \E i, j \in DOMAIN files :
          files[i].kind = "schema" /\ files[j].kind = "class"

---------------------------------------------------------------------------
(* Order of the members of a class.                                         *)

\* the classes written so far for container and list statements
NodeClasses ==
    {c \in ClassesWritten : tree[c.stmt].keyword \in {"container", "list"}}

\* the part of a class body that a member belongs to, with the field
\* declarations in part fieldPart
Part(m, fieldPart) ==
    CASE m.op = "child_field" -> fieldPart
      [] m.op = "constructor" -> 1
      [] m.op = "clone" -> 2
      [] m.op \in {"key_names", "children_names"} -> 3
      [] m.op = "support_add" -> 5
      [] OTHER -> 4

\* the parts of the body of c follow one another in order
PartsInOrder(c, fieldPart) ==
    \A i, j \in DOMAIN c.body :
        i < j => Part(c.body[i], fieldPart) <= Part(c.body[j], fieldPart)

\* C21 as stated: in every container or list class the field declarations
\* come first, then the constructors, the clone methods, the key-name and
\* child-name methods, and the accessors; no field declaration stands after
\* a constructor.
C21_FieldsBeforeConstructors ==
    \A c \in NodeClasses : PartsInOrder(c, 0)

\* C21: in every container or list class the constructors come first, then
\* the two clone methods, then keyNames and childrenNames, then the
\* accessors, and last the addChild support method if there is one; the
\* field declaration of a container child stands among the accessors, after
\* every constructor.
C21_ConstructorsBeforeAccessors ==
    \A c \in NodeClasses :
        /\ PartsInOrder(c, 4)
        /\ c.body[1].op = "constructor"
        /\ Cardinality({i \in DOMAIN c.body : c.body[i].op = "clone"}) = 2
        /\ \E i \in DOMAIN c.body :
              /\ c.body[i].op = "key_names"
              /\ c.body[i + 1].op = "children_names"
              /\ c.body[i - 1].op = "clone"

\* a class with a container child and a leaf is written: it has a field
\* declaration, accessors and the support method
C21_Witness ==
    \E c \in NodeClasses :
        {"child_field", "get_value", "support_add"}
            \subseteq {c.body[i].op : i \in DOMAIN c.body}

\* the member m of the class c is generated for a sub-statement of the
\* statement of c
ForChild(c, m) == m.stmt # 0 /\ tree[m.stmt].parent = c.stmt

\* the container sub-statements of s, in parse order
ContainerChildren(s) ==
    SelectSeq([j \in 1..Len(tree) |-> j],
              LAMBDA j : tree[j].parent = s /\ tree[j].keyword = "container")

\* the fields that addChild of the class c assigns, the last one first
FieldsBackwards(c) ==
    LET add == CHOOSE m \in {c.body[i] : i \in DOMAIN c.body} :
                   m.op = "support_add"
    IN  [i \in DOMAIN add.params |-> add.params[i][2]]

\* C22: the accessors of a class mirror the statement order: of two
\* sub-statements the accessors of the one that is parsed first all stand
\* before those of the other; and the fields of the class, which addChild
\* runs through backwards, are the container children in parse order.
C22_AccessorsInStatementOrder ==
    \A c \in NodeClasses :
        /\ \A i, j \in DOMAIN c.body :
              (i < j /\ ForChild(c, c.body[i]) /\ ForChild(c, c.body[j]))
                  => c.body[i].stmt <= c.body[j].stmt
        /\ (\E i \in DOMAIN c.body : c.body[i].op = "support_add") =>
              /\ Len(FieldsBackwards(c)) = Len(ContainerChildren(c.stmt))
              /\ \A i \in DOMAIN FieldsBackwards(c) :
                    FieldsBackwards(c)[i] =
                        tree[ContainerChildren(c.stmt)
                                [Len(FieldsBackwards(c)) + 1 - i]].arg

\* a class with two container children and a leaf between them is written
C22_Witness ==
    \E c \in NodeClasses :
        /\ Len(ContainerChildren(c.stmt)) = 2
        /\ \E s \in DOMAIN tree :
              /\ tree[s].keyword = "leaf" /\ tree[s].parent = c.stmt
              /\ ContainerChildren(c.stmt)[1] < s
              /\ s < ContainerChildren(c.stmt)[2]

---------------------------------------------------------------------------
(* setup_ctx and the output directory.                                      *)

\* the output format is one of this plug-in
JavaFormat == opts.format \in {<<"java">>, <<"jpyang">>}

\* C23: with --jpyang-help the process exits with code 0, also when the
\* option -d is missing; without it, in the format java or jpyang and with
\* -d missing, it exits with code 1; in no other case does setup_ctx end
\* the process; and a fatal error of emit has exit code 1.
C23_ExitCodes ==
    /\ opts.jpyang_help =>
          pc \in {"setup", "exit"} /\ (pc = "exit" => exit_code = 0)
    /\ (~opts.jpyang_help /\ JavaFormat /\ opts.directory = <<>>) =>
          pc \in {"setup", "exit"} /\ (pc = "exit" => exit_code = 1)
    /\ (~opts.jpyang_help /\ ~(JavaFormat /\ opts.directory = <<>>)) =>
          pc \notin {"setup", "exit"} \/ (pc = "setup" /\ exit_code = -1)
    /\ pc = "fatal" => exit_code = 1
    /\ exit_code # -1 => pc \in {"exit", "fatal"}

\* help was asked for without the option -d, and the process has exited
\* with code 0
C23_Witness ==
    /\ pc = "exit" /\ exit_code = 0
    /\ opts.jpyang_help /\ JavaFormat /\ opts.directory = <<>>

\* emit is in its loop over the modules or behind it
InsideEmit == pc \in {"loop", "classes", "raised", "fatal", "index"}

\* C24: when a file that is no directory stands at the path of the output
\* directory, as its last component or as one above, emit does not abort
\* on it and writes into the directory it was entered in; every other
\* failure to make or to enter the directory aborts the pass.
C24_FileInTheWayIsPassedOver ==
    /\ fs \in {"file", "file above"} =>
          /\ pc # "oserror"
          /\ InsideEmit => cwd = <<"wd">>
    /\ fs \in {"locked", "denied"} =>
          /\ ~InsideEmit /\ pc \notin {"javadoc", "done"}
          /\ files = <<>>

---------------------------------------------------------------------------
(* The operations of a list child.                                          *)

\* the members that class c holds for its child s, in the order of the body
MembersFor(c, s) == SelectSeq(c.body, LAMBDA m : m.stmt = s)

\* the parameters of m carry the names of the keys of list s, in key order
TakesKeys(m, s) ==
    [i \in DOMAIN m.params |-> m.params[i][2]] = split(KeyArg(s))

\* what member m of the parent class takes as its arguments for list s
Takes(m, s) ==
    IF m.params = <<>> THEN "nothing"
    ELSE IF TakesKeys(m, s) /\ \A i \in DOMAIN m.params :
                                  m.params[i][1] = JavaString
    THEN "string keys"
    ELSE IF TakesKeys(m, s) /\ \A i \in DOMAIN m.params :
               m.params[i][1] \in {ConfmString, ConfmUnsignedInt}
    THEN "wrapped keys"
    ELSE IF Len(m.params) = 1 /\ m.params[1][2] = tree[s].arg
                              /\ m.params[1][1] = capitalize(tree[s].arg)
    THEN "child"
    ELSE "other"

\* the operations of class c for its child s with what each takes
Operations(c, s) ==
    LET ms == MembersFor(c, s)
    IN  [i \in DOMAIN ms |-> <<ms[i].op, Takes(ms[i], s)>>]

\* the list children of the statement of class c
ListChildren(c) ==
    {s \in DOMAIN tree :
        tree[s].parent = c.stmt /\ tree[s].keyword = "list"}

\* C25: for every list child, the class of the parent container or list
\* holds exactly nine operations in this order, and no field: get by
\* wrapped keys, get by string keys, iterate, add the child, add by wrapped
\* keys, add by string keys, add with no argument, delete by wrapped keys,
\* delete by string keys.
C25_NineOperationsPerListChild ==
    \A c \in NodeClasses : \A s \in ListChildren(c) :
        Operations(c, s) =
            << <<"get_stmt", "wrapped keys">>,
               <<"get_stmt", "string keys">>,
               <<"child_iterator", "nothing">>,
               <<"add_stmt", "child">>,
               <<"add_stmt", "wrapped keys">>,
               <<"add_stmt", "string keys">>,
               <<"add_stmt", "nothing">>,
               <<"delete_stmt", "wrapped keys">>,
               <<"delete_stmt", "string keys">> >>

\* a class is written whose statement has a list child with two keys
C25_Witness ==
    \E c \in NodeClasses : \E s \in ListChildren(c) :
        /\ Len(split(KeyArg(s))) = 2
        /\ Len(MembersFor(c, s)) = 9

---------------------------------------------------------------------------
(* Order of the artifacts of a pass.                                        *)

RECURSIVE IsBelow(_, _)
\* statement d is a proper descendant of statement s
IsBelow(d, s) ==
    /\ tree[d].parent # 0
    /\ (tree[d].parent = s \/ IsBelow(tree[d].parent, s))

\* the i-th artifact written is the class file of statement s
ClassFileOf(i, s) == files[i].kind = "class" /\ files[i].stmt = s

\* C26: the artifacts are written in a fixed order.  The schema file of a
\* module, when schemas are enabled, is written before every class file of
\* the module; the class file of a statement is written after the class
\* files of all the containers and lists below it that generate_class
\* reaches, so the root class of a module comes after all its container
\* and list classes; and the documentation index is written after the
\* class files of all modules.
C26_ArtifactsInFixedOrder ==
    /\ \A i \in DOMAIN files :
          files[i].kind = "class" =>
             /\ ~opts.no_schema =>
                   \E j \in 1..(i - 1) :
                       /\ files[j].kind = "schema"
                       /\ files[j].stmt = TopOf(files[i].stmt)
             /\ \A j \in DOMAIN files :
                   (files[j].kind = "schema"
                      /\ files[j].stmt = TopOf(files[i].stmt)) => j < i
             /\ \A d \in DOMAIN tree :
                   (IsBelow(d, files[i].stmt) /\ ReachedByClasses(d)) =>
                       \E j \in 1..(i - 1) : ClassFileOf(j, d)
             /\ \A j \in DOMAIN files :
                   (files[j].kind = "class"
                      /\ IsBelow(files[j].stmt, files[i].stmt)) => j < i
    /\ opts.no_schema => \A i \in DOMAIN files : files[i].kind = "class"
    /\ index.written =>
          /\ pc \in {"javadoc", "done"}
          /\ files = ArtifactsFrom(1, opts)
          /\ \A k \in DOMAIN modules :
                \E i \in DOMAIN files : ClassFileOf(i, modules[k])

\* the index is written after the schema file of a module, the class of a
\* list, the class of the container around it and the root class, in this
\* order
C26_Witness ==
    /\ index.written
    /\ \E h, i, j, k \in DOMAIN files :
          /\ h < i /\ i < j /\ j < k
          /\ files[h].kind = "schema"
          /\ ClassFileOf(k, files[h].stmt)
          /\ files[i].kind = "class" /\ files[j].kind = "class"
          /\ tree[files[i].stmt].parent = files[j].stmt
          /\ tree[files[j].stmt].parent = files[k].stmt

---------------------------------------------------------------------------
(* The working directory.                                                   *)

\* control has left emit: it returned, an exception left it, or fatal
\* ended the process
LeftEmit == pc \in {"done", "raised", "fatal", "oserror"}

\* C27: emit leaves the working directory as it found it: when emit is
\* left, by its return, by a fatal abort or by an exception, the working
\* directory is the one emit was entered in.
C27_WorkingDirectoryRestored == LeftEmit => cwd = <<"wd">>

---------------------------------------------------------------------------
(* Child names in the class and in the schema.                              *)

\* the member of class c that generator op gives
MemberOf(c, op) == c.body[CHOOSE i \in DOMAIN c.body : c.body[i].op = op]

RECURSIVE SkipWhite(_)
\* Java source text without the white space it begins with
SkipWhite(text) ==
    IF text # <<>> /\ Head(text) \in {SP, "\n"} THEN SkipWhite(Tail(text))
    ELSE text

\* the index of the first double quote of text, 0 when it has none
FirstQuote(text) ==
    IF \E i \in DOMAIN text : text[i] = "\""
    THEN CHOOSE i \in DOMAIN text :
            text[i] = "\"" /\ \A j \in 1..(i - 1) : text[j] # "\""
    ELSE 0

\* what a Java array initialiser holds that does not compile
NoStrings == [compiles |-> FALSE, strings |-> <<>>]

RECURSIVE StringsOf(_)
\* the strings of the Java array initialiser { text }: string literals with
\* commas between, no line break inside a literal
StringsOf(text) ==
    LET t == SkipWhite(text) IN
    IF t = <<>> THEN [compiles |-> TRUE, strings |-> <<>>]
    ELSE IF Head(t) # "\"" \/ FirstQuote(Tail(t)) = 0 THEN NoStrings
    ELSE LET close == FirstQuote(Tail(t))
             literal == SubSeq(Tail(t), 1, close - 1)
             rest == SkipWhite(SubSeq(Tail(t), close + 1, Len(t) - 1))
         IN  IF (\E i \in DOMAIN literal : literal[i] \in {"\n", "\\"})
             THEN NoStrings
             ELSE IF rest = <<>>
             THEN [compiles |-> TRUE, strings |-> <<literal>>]
             ELSE IF Head(rest) # "," THEN NoStrings
             ELSE LET more == StringsOf(Tail(rest))
                  IN  [compiles |-> more.compiles,
                       strings |-> <<literal>> \o more.strings]

\* the arguments of these statements, in their order
ArgsOf(subs) == [i \in DOMAIN subs |-> tree[subs[i]].arg]

\* the direct sub-statements of s that are no key statements
NotKeys(s) == SelectSeq(substmts(s), LAMBDA x : tree[x].keyword # "key")

RECURSIVE EntriesWithoutKeys(_, _)
\* the entries of the children text of a schema record, taken in the order
\* of the sub-statements subs, without the entries of the key statements
EntriesWithoutKeys(subs, text) ==
    IF subs = <<>> THEN <<>>
    ELSE LET n == Len(tree[Head(subs)].arg)
         IN  (IF tree[Head(subs)].keyword = "key" THEN <<>>
              ELSE <<SubSeq(text, 1, n)>>)
             \o EntriesWithoutKeys(Tail(subs), SubSeq(text, n + 2, Len(text)))

\* class c and schema record r are those of one container or list
OfOneNode(c, r) ==
    r.stmt = c.stmt /\ tree[c.stmt].keyword \in {"container", "list"}

\* C28: the class and the schema record of a container or list agree on
\* the names of the children.  childrenNames() returns the children list
\* of the record without the entries of the key statements, in the same
\* order; both are the arguments of the direct sub-statements in parse
\* order; and keyNames() of a class without a key statement returns null.
C28_ChildNamesAgree ==
    /\ \A c \in ClassesWritten : \A r \in SchemaRecords :
          OfOneNode(c, r) =>
             /\ StringsOf(MemberOf(c, "children_names").typ).compiles
             /\ StringsOf(MemberOf(c, "children_names").typ).strings
                   = EntriesWithoutKeys(substmts(c.stmt), r.children)
             /\ StringsOf(MemberOf(c, "children_names").typ).strings
                   = ArgsOf(NotKeys(c.stmt))
             /\ r.children = Join(ArgsOf(substmts(c.stmt)))
    /\ \A c \in NodeClasses :
          search(c.stmt, "key") = <<>> =>
             "null" \in MemberOf(c, "key_names").flags

=============================================================================
